---------------------------- MODULE Spec2Model ----------------------------
(* XIVE interrupt controller of hw/ppc/pnv.c (the XIVE part, from line     *)
(* 1074 on): event sources (IVSE) with their ESB state machine, the router *)
(* (IVRE) with its IVE / EQ / VP tables and the event queues in guest      *)
(* memory, the presenter (IVPE) and the thread interrupt contexts (TCTX)   *)
(* with the TIMA.  Every device callback runs to completion under the      *)
(* global lock, so each callback is one atomic action.                     *)
(*                                                                         *)
(* Values wider than 31 bits (MMIO data, masks, queue words) are kept as   *)
(* tuples of bytes, most significant byte first.                           *)
EXTENDS Integers, Sequences, FiniteSets, TLC

(***************************************************************************)
(* Bounds of the model                                                     *)
(***************************************************************************)
NrIrqs == 2
NrCpus == 2
NrEqs == 2
MaxPush == 2

(***************************************************************************)
(* Constants of hw/ppc/xive.h and hw/ppc/xive_regs.h                       *)
(***************************************************************************)
XIVE_PRIORITY_MAX == 7

XIVE_ESB_RESET == 0
XIVE_ESB_OFF == 1
XIVE_ESB_PENDING == 2
XIVE_ESB_QUEUED == 3
XIVE_STATUS_ASSERTED == 4

XIVE_ESB_4K == 12
XIVE_ESB_4K_2PAGE == 13
XIVE_ESB_64K == 16
XIVE_ESB_64K_2PAGE == 17
XIVE_SRC_STORE_EOI == 2

XIVE_ESB_LOAD_EOI == 0
XIVE_ESB_STORE_EOI == 1024
XIVE_ESB_GET == 2048
XIVE_ESB_SET_PQ_00 == 3072
XIVE_ESB_SET_PQ_01 == 3328
XIVE_ESB_SET_PQ_10 == 3584
XIVE_ESB_SET_PQ_11 == 3840

TM_SHIFT == 16
TM_QW0_USER == 0
TM_QW1_OS == 16
TM_QW2_HV_POOL == 32
TM_QW3_HV_PHYS == 48
TM_NSR == 0
TM_CPPR == 1
TM_IPB == 2
TM_LSMFB == 3
TM_ACK_CNT == 4
TM_INC == 5
TM_AGE == 6
TM_PIPR == 7
TM_WORD2 == 8
TM_QW1_NSR_EO == 128
TM_SPC_ACK_OS_REG == 2064
TM_SPC_SET_OS_PENDING == 2066

XIVE_TM_HW_PAGE == 0
XIVE_TM_HV_PAGE == 1
XIVE_TM_OS_PAGE == 2
XIVE_TM_USER_PAGE == 3

(***************************************************************************)
(* C integer operators on naturals                                         *)
(***************************************************************************)
RECURSIVE BitAnd(_, _)
BitAnd(a, b) ==
    IF a = 0 \/ b = 0 THEN 0
    ELSE (IF a % 2 = 1 /\ b % 2 = 1 THEN 1 ELSE 0) + 2 * BitAnd(a \div 2, b \div 2)

RECURSIVE BitOr(_, _)
BitOr(a, b) ==
    IF a = 0 THEN b
    ELSE IF b = 0 THEN a
    ELSE (IF a % 2 = 1 \/ b % 2 = 1 THEN 1 ELSE 0) + 2 * BitOr(a \div 2, b \div 2)

\* a & ~b on uint8_t
BitClear(a, b) == a - BitAnd(a, b)

\* clz32() on a 32-bit word given by its top byte (the other bytes are 0):
\* the number of zero bits above the first set bit.
RECURSIVE clz32_top(_)
clz32_top(b) == IF b >= 128 THEN 0 ELSE 1 + clz32_top(2 * b)

Byte == 0 .. 255

\* A uint64_t as 8 bytes, most significant first
U64(n) == [i \in 1 .. 8 |-> IF i <= 4 THEN 0 ELSE (n \div (256 ^ (8 - i))) % 256]
MinusOne == [i \in 1 .. 8 |-> 255]

(***************************************************************************)
(* Thread interrupt management context: priorities and IPB / PIPR          *)
(***************************************************************************)
\* priority_to_ipb() that takes the priority modulo 8
priority_to_ipb_wrap(priority) == 2 ^ (XIVE_PRIORITY_MAX - (priority % 8))

priority_to_ipb(priority) ==
    IF priority > XIVE_PRIORITY_MAX THEN 0 ELSE 2 ^ (XIVE_PRIORITY_MAX - priority)

ipb_to_pipr(ibp) == IF ibp # 0 THEN clz32_top(ibp) ELSE 255

\* ipb_update() that leaves PIPR stale
ipb_update_stale(regs, base, priority) ==
    [regs EXCEPT ![base + TM_IPB] = BitOr(regs[base + TM_IPB], priority_to_ipb(priority))]

\* regs is the register file, base the offset of the ring in it.
ipb_update(regs, base, priority) ==
    LET ipb == BitOr(regs[base + TM_IPB], priority_to_ipb(priority))
    IN  [regs EXCEPT ![base + TM_IPB] = ipb, ![base + TM_PIPR] = ipb_to_pipr(ipb)]

\* -1 stands for g_assert_not_reached()
exception_mask(ring) == IF ring = TM_QW1_OS THEN TM_QW1_NSR_EO ELSE -1


(***************************************************************************)
(* A thread context is [regs, output, fatal]: the 64 register bytes, the   *)
(* level of the CPU interrupt line and whether an assertion has aborted    *)
(* the program.  The operations return the new context (and a value).      *)
(***************************************************************************)
\* xive_tctx_accept() that leaves the accepted priority pending in the IPB
xive_tctx_accept_keep(tctx, ring) ==
    LET regs == tctx.regs
        nsr  == regs[ring + TM_NSR]
        mask == exception_mask(ring)
    IN  IF mask = -1
        THEN [tctx |-> [tctx EXCEPT !.fatal = TRUE], ret |-> MinusOne]
        ELSE IF BitAnd(nsr, mask) # 0
        THEN LET cppr == regs[ring + TM_PIPR]
                 new  == [regs EXCEPT ![ring + TM_CPPR] = cppr,
                                      ![ring + TM_NSR] = BitClear(nsr, mask)]
             IN  [tctx |-> [tctx EXCEPT !.regs = new, !.output = FALSE],
                  ret |-> U64(nsr * 256 + cppr)]
        ELSE [tctx |-> [tctx EXCEPT !.output = FALSE],
              ret |-> U64(nsr * 256 + regs[ring + TM_CPPR])]

\* xive_tctx_accept() that does not lower the line
xive_tctx_accept_line(tctx, ring) ==
    LET regs == tctx.regs
        nsr  == regs[ring + TM_NSR]
        mask == exception_mask(ring)
    IN  IF mask = -1
        THEN [tctx |-> [tctx EXCEPT !.fatal = TRUE], ret |-> MinusOne]
        ELSE IF BitAnd(nsr, mask) # 0
        THEN LET cppr == regs[ring + TM_PIPR]
                 ipb  == BitClear(regs[ring + TM_IPB], priority_to_ipb(cppr))
                 new  == [regs EXCEPT ![ring + TM_CPPR] = cppr,
                                      ![ring + TM_IPB] = ipb,
                                      ![ring + TM_PIPR] = ipb_to_pipr(ipb),
                                      ![ring + TM_NSR] = BitClear(nsr, mask)]
             IN  [tctx |-> [tctx EXCEPT !.regs = new],
                  ret |-> U64(nsr * 256 + cppr)]
        ELSE [tctx |-> tctx,
              ret |-> U64(nsr * 256 + regs[ring + TM_CPPR])]

xive_tctx_accept(tctx, ring) ==
    LET regs == tctx.regs
        nsr  == regs[ring + TM_NSR]
        mask == exception_mask(ring)
    IN  IF mask = -1
        THEN [tctx |-> [tctx EXCEPT !.fatal = TRUE], ret |-> MinusOne]
        ELSE IF BitAnd(nsr, mask) # 0
        THEN LET cppr == regs[ring + TM_PIPR]
                 ipb  == BitClear(regs[ring + TM_IPB], priority_to_ipb(cppr))
                 new  == [regs EXCEPT ![ring + TM_CPPR] = cppr,
                                      ![ring + TM_IPB] = ipb,
                                      ![ring + TM_PIPR] = ipb_to_pipr(ipb),
                                      ![ring + TM_NSR] = BitClear(nsr, mask)]
             IN  [tctx |-> [tctx EXCEPT !.regs = new, !.output = FALSE],
                  ret |-> U64(nsr * 256 + cppr)]
        ELSE [tctx |-> [tctx EXCEPT !.output = FALSE],
              ret |-> U64(nsr * 256 + regs[ring + TM_CPPR])]

\* xive_tctx_notify() that also raises the exception when PIPR equals CPPR
xive_tctx_notify_le(tctx, ring) ==
    LET regs == tctx.regs
    IN  IF regs[ring + TM_PIPR] <= regs[ring + TM_CPPR]
        THEN IF exception_mask(ring) = -1
             THEN [tctx EXCEPT !.fatal = TRUE]
             ELSE [tctx EXCEPT !.regs[ring + TM_NSR] =
                                   BitOr(regs[ring + TM_NSR], exception_mask(ring)),
                               !.output = TRUE]
        ELSE tctx

xive_tctx_notify(tctx, ring) ==
    LET regs == tctx.regs
    IN  IF regs[ring + TM_PIPR] < regs[ring + TM_CPPR]
        THEN IF exception_mask(ring) = -1
             THEN [tctx EXCEPT !.fatal = TRUE]
             ELSE [tctx EXCEPT !.regs[ring + TM_NSR] =
                                   BitOr(regs[ring + TM_NSR], exception_mask(ring)),
                               !.output = TRUE]
        ELSE tctx

\* xive_tctx_set_cppr() that records the value as it is stored
xive_tctx_set_cppr_asis(tctx, ring, cppr) ==
    xive_tctx_notify([tctx EXCEPT !.regs[ring + TM_CPPR] = cppr], ring)

xive_tctx_set_cppr(tctx, ring, cppr) ==
    LET c == IF cppr > XIVE_PRIORITY_MAX THEN 255 ELSE cppr
    IN  xive_tctx_notify([tctx EXCEPT !.regs[ring + TM_CPPR] = c], ring)

(***************************************************************************)
(* TIMA: the access map of each page (0 none, 1 write, 2 read, 3 both)     *)
(***************************************************************************)
xive_tm_hw_view ==
    << 3, 0, 0, 0,   0, 0, 0, 0,   3, 3, 3, 3,   0, 0, 0, 0,
       3, 3, 3, 3,   3, 3, 0, 3,   3, 3, 3, 3,   0, 0, 0, 0,
       0, 0, 3, 3,   0, 0, 0, 0,   3, 3, 3, 3,   0, 0, 0, 0,
       3, 3, 3, 3,   0, 3, 0, 3,   3, 0, 0, 3,   3, 3, 3, 0 >>

xive_tm_hv_view ==
    << 3, 0, 0, 0,   0, 0, 0, 0,   3, 3, 3, 3,   0, 0, 0, 0,
       3, 3, 3, 3,   3, 3, 0, 3,   3, 3, 3, 3,   0, 0, 0, 0,
       0, 0, 3, 3,   0, 0, 0, 0,   0, 3, 3, 3,   0, 0, 0, 0,
       3, 3, 3, 3,   0, 3, 0, 3,   3, 0, 0, 3,   0, 0, 0, 0 >>

xive_tm_os_view ==
    << 3, 0, 0, 0,   0, 0, 0, 0,   3, 3, 3, 3,   0, 0, 0, 0,
       2, 3, 2, 2,   2, 2, 0, 2,   0, 0, 0, 0,   0, 0, 0, 0,
       0, 0, 0, 0,   0, 0, 0, 0,   0, 0, 0, 0,   0, 0, 0, 0,
       0, 0, 0, 0,   0, 0, 0, 0,   0, 0, 0, 0,   0, 3, 3, 0 >>

xive_tm_user_view ==
    << 3, 0, 0, 0,   0, 0, 0, 0,   0, 0, 0, 0,   0, 0, 0, 0,
       0, 0, 0, 0,   0, 0, 0, 0,   0, 0, 0, 0,   0, 0, 0, 0,
       0, 0, 0, 0,   0, 0, 0, 0,   0, 0, 0, 0,   0, 0, 0, 0,
       0, 0, 0, 0,   0, 0, 0, 0,   0, 0, 0, 0,   0, 0, 0, 0 >>

\* indexed by page + 1 (tuples start at 1); a view is indexed by register + 1
xive_tm_views ==
    << xive_tm_hw_view, xive_tm_hv_view, xive_tm_os_view, xive_tm_user_view >>

tm_page_offset(offset) == (offset \div (2 ^ TM_SHIFT)) % 4

\* xive_tm_mask() that takes a register for accessible whichever way its view
\* lets it be accessed
xive_tm_mask_any(offset, size, write) ==
    LET page_offset == tm_page_offset(offset)
        reg_offset  == offset % 64
    IN  [i \in 1 .. size |->
            IF xive_tm_views[page_offset + 1][reg_offset + i] # 0
            THEN 255 ELSE 0]

\* The mask as a tuple of size bytes, most significant (lowest register) first.
xive_tm_mask(offset, size, write) ==
    LET page_offset == tm_page_offset(offset)
        reg_offset  == offset % 64
        reg_mask    == IF write THEN 1 ELSE 2
    IN  [i \in 1 .. size |->
            IF BitAnd(xive_tm_views[page_offset + 1][reg_offset + i], reg_mask) # 0
            THEN 255 ELSE 0]

MaskIsZero(mask) == \A i \in DOMAIN mask : mask[i] = 0

\* xive_tm_raw_write() that re-checks the OS ring for an exception to raise
xive_tm_raw_write_recheck(tctx, offset, value, size) ==
    LET ring_offset == ((offset \div 16) % 4) * 16
        reg_offset  == offset % 64
        mask        == xive_tm_mask(offset, size, TRUE)
    IN  IF size < 4 \/ MaskIsZero(mask) \/ ring_offset = TM_QW0_USER
        THEN tctx
        ELSE xive_tctx_notify(
                 [tctx EXCEPT !.regs =
                     [r \in 0 .. 63 |->
                         IF r >= reg_offset /\ r < reg_offset + size
                            /\ mask[r - reg_offset + 1] # 0
                         THEN BitAnd(value[r - reg_offset + 1],
                                     mask[r - reg_offset + 1])
                         ELSE tctx.regs[r]]],
                 TM_QW1_OS)

\* value is a tuple of size bytes.  Returns the new register file.
xive_tm_raw_write(tctx, offset, value, size) ==
    LET ring_offset == ((offset \div 16) % 4) * 16
        reg_offset  == offset % 64
        mask        == xive_tm_mask(offset, size, TRUE)
    IN  IF size < 4 \/ MaskIsZero(mask) \/ ring_offset = TM_QW0_USER
        THEN tctx
        ELSE [tctx EXCEPT !.regs =
                 [r \in 0 .. 63 |->
                     IF r >= reg_offset /\ r < reg_offset + size
                        /\ mask[r - reg_offset + 1] # 0
                     THEN BitAnd(value[r - reg_offset + 1], mask[r - reg_offset + 1])
                     ELSE tctx.regs[r]]]

\* Returns the uint64_t result: the size bytes read, zero-extended, or -1
xive_tm_raw_read(tctx, offset, size) ==
    LET ring_offset == ((offset \div 16) % 4) * 16
        reg_offset  == offset % 64
        mask        == xive_tm_mask(offset, size, FALSE)
    IN  IF size < 4 \/ MaskIsZero(mask) \/ ring_offset = TM_QW0_USER
        THEN MinusOne
        ELSE [i \in 1 .. 8 |->
                 IF i <= 8 - size THEN 0
                 ELSE BitAnd(tctx.regs[reg_offset + i - (8 - size) - 1],
                             mask[i - (8 - size)])]

(***************************************************************************)
(* TIMA special operations                                                 *)
(***************************************************************************)
xive_tm_ack_os_reg(tctx) == xive_tctx_accept(tctx, TM_QW1_OS)

\* value & 0xff is the last byte of the stored data
xive_tm_set_os_cppr(tctx, value) ==
    xive_tctx_set_cppr(tctx, TM_QW1_OS, value[Len(value)])

\* xive_tm_set_os_pending() that takes the value for the IPB bits themselves
xive_tm_set_os_pending_bits(tctx, value) ==
    xive_tctx_notify(
        [tctx EXCEPT !.regs[TM_QW1_OS + TM_IPB] =
                         BitOr(tctx.regs[TM_QW1_OS + TM_IPB], value[Len(value)]),
                     !.regs[TM_QW1_OS + TM_PIPR] =
                         ipb_to_pipr(BitOr(tctx.regs[TM_QW1_OS + TM_IPB],
                                           value[Len(value)]))],
        TM_QW1_OS)

xive_tm_set_os_pending(tctx, value) ==
    xive_tctx_notify(
        [tctx EXCEPT !.regs = ipb_update(tctx.regs, TM_QW1_OS, value[Len(value)])],
        TM_QW1_OS)

xive_tm_operations ==
    << [page_offset |-> XIVE_TM_OS_PAGE, op_offset |-> TM_QW1_OS + TM_CPPR,
        size |-> 1, write_handler |-> "set_os_cppr", read_handler |-> "NULL"],
       [page_offset |-> XIVE_TM_OS_PAGE, op_offset |-> TM_SPC_ACK_OS_REG,
        size |-> 2, write_handler |-> "NULL", read_handler |-> "ack_os_reg"],
       [page_offset |-> XIVE_TM_OS_PAGE, op_offset |-> TM_SPC_SET_OS_PENDING,
        size |-> 1, write_handler |-> "set_os_pending", read_handler |-> "NULL"] >>

\* xive_tm_find_op() that allows the accesses from the less privileged pages
xive_tm_find_op_below(offset, size, write) ==
    LET page_offset == tm_page_offset(offset)
        op_offset   == offset % 4096
        hits == { i \in DOMAIN xive_tm_operations :
                    LET xto == xive_tm_operations[i]
                    IN  /\ xto.page_offset <= page_offset
                        /\ xto.op_offset = op_offset
                        /\ xto.size = size
                        /\ \/ write /\ xto.write_handler # "NULL"
                           \/ ~write /\ xto.read_handler # "NULL" }
    IN  IF hits = {} THEN 0 ELSE CHOOSE i \in hits : \A j \in hits : i <= j

\* The index of the first matching operation, 0 when there is none
xive_tm_find_op(offset, size, write) ==
    LET page_offset == tm_page_offset(offset)
        op_offset   == offset % 4096
        hits == { i \in DOMAIN xive_tm_operations :
                    LET xto == xive_tm_operations[i]
                    IN  /\ xto.page_offset >= page_offset
                        /\ xto.op_offset = op_offset
                        /\ xto.size = size
                        /\ \/ write /\ xto.write_handler # "NULL"
                           \/ ~write /\ xto.read_handler # "NULL" }
    IN  IF hits = {} THEN 0 ELSE CHOOSE i \in hits : \A j \in hits : i <= j

tm_special(offset) == (offset \div 2048) % 2 = 1

tm_write_handler(name, tctx, value) ==
    IF name = "set_os_cppr" THEN xive_tm_set_os_cppr(tctx, value)
    ELSE xive_tm_set_os_pending(tctx, value)

\* What a store does: [tctx, kind], kind the handler that ran, "raw" or "invalid"
xive_tm_write(tctx, offset, value, size) ==
    LET xto == xive_tm_find_op(offset, size, TRUE)
    IN  IF xto # 0
        THEN [tctx |-> tm_write_handler(xive_tm_operations[xto].write_handler,
                                        tctx, value),
              kind |-> xive_tm_operations[xto].write_handler]
        ELSE IF tm_special(offset)
        THEN [tctx |-> tctx, kind |-> "invalid"]
        ELSE [tctx |-> xive_tm_raw_write(tctx, offset, value, size),
              kind |-> "raw"]

\* What a load does: [tctx, ret, kind]
xive_tm_read(tctx, offset, size) ==
    LET xto == xive_tm_find_op(offset, size, FALSE)
    IN  IF xto # 0
        THEN LET r == xive_tm_ack_os_reg(tctx)
             IN  [tctx |-> r.tctx, ret |-> r.ret, kind |-> "ack_os_reg"]
        ELSE IF tm_special(offset)
        THEN [tctx |-> tctx, ret |-> MinusOne, kind |-> "invalid"]
        ELSE [tctx |-> tctx, ret |-> xive_tm_raw_read(tctx, offset, size),
              kind |-> "raw"]

(***************************************************************************)
(* ESB helpers: pq is the byte holding the P and Q bits in its low bits.   *)
(* They return the new byte and the C function's result.                   *)
(***************************************************************************)
\* xive_esb_set() that overwrites the whole byte
xive_esb_set_byte(pq, value) ==
    [pq |-> value % 4, ret |-> pq % 4]

xive_esb_set(pq, value) ==
    [pq |-> (pq - (pq % 4)) + (value % 4), ret |-> pq % 4]

\* xive_esb_trigger() without the coalescing of a second event in the Q bit
xive_esb_trigger_noq(pq) ==
    LET old_pq == pq % 4
    IN  IF old_pq = XIVE_ESB_RESET
        THEN [pq |-> xive_esb_set(pq, XIVE_ESB_PENDING).pq, ret |-> TRUE]
        ELSE [pq |-> pq, ret |-> FALSE]

xive_esb_trigger(pq) ==
    LET old_pq == pq % 4
    IN  IF old_pq = XIVE_ESB_RESET
        THEN [pq |-> xive_esb_set(pq, XIVE_ESB_PENDING).pq, ret |-> TRUE]
        ELSE IF old_pq = XIVE_ESB_PENDING \/ old_pq = XIVE_ESB_QUEUED
        THEN [pq |-> xive_esb_set(pq, XIVE_ESB_QUEUED).pq, ret |-> FALSE]
        ELSE [pq |-> xive_esb_set(pq, XIVE_ESB_OFF).pq, ret |-> FALSE]

\* xive_esb_eoi() that drops the event coalesced in the Q bit
xive_esb_eoi_dropq(pq) ==
    LET old_pq == pq % 4
    IN  IF old_pq = XIVE_ESB_OFF
        THEN [pq |-> pq, ret |-> FALSE]
        ELSE [pq |-> xive_esb_set(pq, XIVE_ESB_RESET).pq, ret |-> FALSE]

xive_esb_eoi(pq) ==
    LET old_pq == pq % 4
    IN  IF old_pq = XIVE_ESB_RESET \/ old_pq = XIVE_ESB_PENDING
        THEN [pq |-> xive_esb_set(pq, XIVE_ESB_RESET).pq, ret |-> FALSE]
        ELSE IF old_pq = XIVE_ESB_QUEUED
        THEN [pq |-> xive_esb_set(pq, XIVE_ESB_PENDING).pq, ret |-> TRUE]
        ELSE [pq |-> xive_esb_set(pq, XIVE_ESB_OFF).pq, ret |-> FALSE]

(***************************************************************************)
(* Interrupt source (IVSE).  xsrc is [status, lsi_map, esb_shift,          *)
(* esb_flags]; the helpers return the new status array and the result.     *)
(***************************************************************************)
xive_source_irq_is_lsi(xsrc, srcno) == srcno \in xsrc.lsi_map

xive_source_esb_has_2page(xsrc) ==
    xsrc.esb_shift = XIVE_ESB_4K_2PAGE \/ xsrc.esb_shift = XIVE_ESB_64K_2PAGE

xive_source_esb_get(xsrc, srcno) == xsrc.status[srcno] % 4

xive_source_esb_set(xsrc, srcno, pq) ==
    LET r == xive_esb_set(xsrc.status[srcno], pq)
    IN  [xsrc |-> [xsrc EXCEPT !.status[srcno] = r.pq], ret |-> r.ret]

\* xive_source_lsi_trigger() that also fires when the source is off
xive_source_lsi_trigger_off(xsrc, srcno) ==
    IF xive_source_esb_get(xsrc, srcno) \in {XIVE_ESB_RESET, XIVE_ESB_OFF}
    THEN [xsrc |-> xive_source_esb_set(xsrc, srcno, XIVE_ESB_PENDING).xsrc,
          ret |-> TRUE]
    ELSE [xsrc |-> xsrc, ret |-> FALSE]

\* xive_source_lsi_trigger() that coalesces in the Q bit as an MSI does
xive_source_lsi_trigger_q(xsrc, srcno) ==
    LET r == xive_esb_trigger(xsrc.status[srcno])
    IN  [xsrc |-> [xsrc EXCEPT !.status[srcno] = r.pq], ret |-> r.ret]

xive_source_lsi_trigger(xsrc, srcno) ==
    IF xive_source_esb_get(xsrc, srcno) = XIVE_ESB_RESET
    THEN [xsrc |-> xive_source_esb_set(xsrc, srcno, XIVE_ESB_PENDING).xsrc,
          ret |-> TRUE]
    ELSE [xsrc |-> xsrc, ret |-> FALSE]

xive_source_esb_trigger(xsrc, srcno) ==
    LET r == xive_esb_trigger(xsrc.status[srcno])
    IN  [xsrc |-> [xsrc EXCEPT !.status[srcno] = r.pq], ret |-> r.ret]

\* xive_source_esb_eoi() that forwards for an asserted LSI without looking at
\* its PQ bits
xive_source_esb_eoi_always(xsrc, srcno) ==
    LET r  == xive_esb_eoi(xsrc.status[srcno])
        x1 == [xsrc EXCEPT !.status[srcno] = r.pq]
    IN  IF xive_source_irq_is_lsi(x1, srcno)
           /\ BitAnd(x1.status[srcno], XIVE_STATUS_ASSERTED) # 0
        THEN [xsrc |-> x1, ret |-> TRUE]
        ELSE [xsrc |-> x1, ret |-> r.ret]

\* xive_source_esb_eoi() without the check of the ASSERTED bit of LSIs
xive_source_esb_eoi_nolsi(xsrc, srcno) ==
    LET r == xive_esb_eoi(xsrc.status[srcno])
    IN  [xsrc |-> [xsrc EXCEPT !.status[srcno] = r.pq], ret |-> r.ret]

xive_source_esb_eoi(xsrc, srcno) ==
    LET r  == xive_esb_eoi(xsrc.status[srcno])
        x1 == [xsrc EXCEPT !.status[srcno] = r.pq]
    IN  IF xive_source_irq_is_lsi(x1, srcno)
           /\ BitAnd(x1.status[srcno], XIVE_STATUS_ASSERTED) # 0
        THEN xive_source_lsi_trigger(x1, srcno)
        ELSE [xsrc |-> x1, ret |-> r.ret]

addr_is_even(addr, shift) == (addr \div (2 ^ shift)) % 2 = 0

\* xive_source_is_trigger_page() that takes the odd page for the trigger page
xive_source_is_trigger_page_odd(xsrc, addr) ==
    xive_source_esb_has_2page(xsrc) /\ ~addr_is_even(addr, xsrc.esb_shift - 1)

xive_source_is_trigger_page(xsrc, addr) ==
    xive_source_esb_has_2page(xsrc) /\ addr_is_even(addr, xsrc.esb_shift - 1)

\* xive_source_esb_read() that decodes the load EOI in 0x400 - 0x7FF only and
\* takes a load below for invalid
xive_source_esb_read_high(xsrc, addr) ==
    LET offset == addr % 4096
        srcno  == addr \div (2 ^ xsrc.esb_shift)
    IN  IF xive_source_is_trigger_page(xsrc, addr)
        THEN [xsrc |-> xsrc, ret |-> MinusOne, notify |-> FALSE, kind |-> "invalid"]
        ELSE IF offset >= XIVE_ESB_LOAD_EOI + 1024 /\ offset <= XIVE_ESB_LOAD_EOI + 2047
        THEN LET r == xive_source_esb_eoi(xsrc, srcno)
             IN  [xsrc |-> r.xsrc, ret |-> U64(IF r.ret THEN 1 ELSE 0),
                  notify |-> r.ret, kind |-> "eoi"]
        ELSE IF offset >= XIVE_ESB_GET /\ offset <= XIVE_ESB_GET + 1023
        THEN [xsrc |-> xsrc, ret |-> U64(xive_source_esb_get(xsrc, srcno)),
              notify |-> FALSE, kind |-> "get"]
        ELSE IF offset >= XIVE_ESB_SET_PQ_00 /\ offset <= XIVE_ESB_SET_PQ_11 + 255
        THEN LET r == xive_source_esb_set(xsrc, srcno, (offset \div 256) % 4)
             IN  [xsrc |-> r.xsrc, ret |-> U64(r.ret), notify |-> FALSE,
                  kind |-> "set_pq"]
        ELSE [xsrc |-> xsrc, ret |-> MinusOne, notify |-> FALSE, kind |-> "invalid"]

\* What an ESB load does: [xsrc, ret, notify, kind]; notify tells whether
\* xive_source_notify() is called for srcno, kind names the decoded operation.
xive_source_esb_read(xsrc, addr) ==
    LET offset == addr % 4096
        srcno  == addr \div (2 ^ xsrc.esb_shift)
    IN  IF xive_source_is_trigger_page(xsrc, addr)
        THEN [xsrc |-> xsrc, ret |-> MinusOne, notify |-> FALSE, kind |-> "invalid"]
        ELSE IF offset >= XIVE_ESB_LOAD_EOI /\ offset <= XIVE_ESB_LOAD_EOI + 2047
        THEN LET r == xive_source_esb_eoi(xsrc, srcno)
             IN  [xsrc |-> r.xsrc, ret |-> U64(IF r.ret THEN 1 ELSE 0),
                  notify |-> r.ret, kind |-> "eoi"]
        ELSE IF offset >= XIVE_ESB_GET /\ offset <= XIVE_ESB_GET + 1023
        THEN [xsrc |-> xsrc, ret |-> U64(xive_source_esb_get(xsrc, srcno)),
              notify |-> FALSE, kind |-> "get"]
        ELSE IF offset >= XIVE_ESB_SET_PQ_00 /\ offset <= XIVE_ESB_SET_PQ_11 + 255
        THEN LET r == xive_source_esb_set(xsrc, srcno, (offset \div 256) % 4)
             IN  [xsrc |-> r.xsrc, ret |-> U64(r.ret), notify |-> FALSE,
                  kind |-> "set_pq"]
        ELSE [xsrc |-> xsrc, ret |-> MinusOne, notify |-> FALSE, kind |-> "invalid"]

\* xive_source_esb_write() that performs a Store EOI whatever the flags
xive_source_esb_write_anyflag(xsrc, addr) ==
    LET offset == addr % 4096
        srcno  == addr \div (2 ^ xsrc.esb_shift)
    IN  IF xive_source_is_trigger_page(xsrc, addr) \/ offset <= 1023
        THEN LET r == xive_source_esb_trigger(xsrc, srcno)
             IN  [xsrc |-> r.xsrc, notify |-> r.ret, kind |-> "trigger"]
        ELSE IF offset >= XIVE_ESB_STORE_EOI /\ offset <= XIVE_ESB_STORE_EOI + 1023
        THEN LET r == xive_source_esb_eoi(xsrc, srcno)
             IN  [xsrc |-> r.xsrc, notify |-> r.ret, kind |-> "eoi"]
        ELSE IF offset >= XIVE_ESB_SET_PQ_00 /\ offset <= XIVE_ESB_SET_PQ_11 + 255
        THEN [xsrc |-> xive_source_esb_set(xsrc, srcno, (offset \div 256) % 4).xsrc,
              notify |-> FALSE, kind |-> "set_pq"]
        ELSE [xsrc |-> xsrc, notify |-> FALSE, kind |-> "invalid"]

\* xive_source_esb_write() that triggers on a store in 0x400 - 0x7FF of the
\* page of a one-page setting
xive_source_esb_write_single(xsrc, addr) ==
    LET offset == addr % 4096
        srcno  == addr \div (2 ^ xsrc.esb_shift)
    IN  IF xive_source_is_trigger_page(xsrc, addr) \/ offset <= 1023
           \/ (~xive_source_esb_has_2page(xsrc) /\ offset <= 2047)
        THEN LET r == xive_source_esb_trigger(xsrc, srcno)
             IN  [xsrc |-> r.xsrc, notify |-> r.ret, kind |-> "trigger"]
        ELSE IF offset >= XIVE_ESB_STORE_EOI /\ offset <= XIVE_ESB_STORE_EOI + 1023
        THEN IF BitAnd(xsrc.esb_flags, XIVE_SRC_STORE_EOI) = 0
             THEN [xsrc |-> xsrc, notify |-> FALSE, kind |-> "invalid_store_eoi"]
             ELSE LET r == xive_source_esb_eoi(xsrc, srcno)
                  IN  [xsrc |-> r.xsrc, notify |-> r.ret, kind |-> "eoi"]
        ELSE IF offset >= XIVE_ESB_SET_PQ_00 /\ offset <= XIVE_ESB_SET_PQ_11 + 255
        THEN [xsrc |-> xive_source_esb_set(xsrc, srcno, (offset \div 256) % 4).xsrc,
              notify |-> FALSE, kind |-> "set_pq"]
        ELSE [xsrc |-> xsrc, notify |-> FALSE, kind |-> "invalid"]

\* What an ESB store does: [xsrc, notify, kind]; a Store EOI that the flags
\* do not allow is of kind "invalid_store_eoi"
xive_source_esb_write(xsrc, addr) ==
    LET offset == addr % 4096
        srcno  == addr \div (2 ^ xsrc.esb_shift)
    IN  IF xive_source_is_trigger_page(xsrc, addr) \/ offset <= 1023
        THEN LET r == xive_source_esb_trigger(xsrc, srcno)
             IN  [xsrc |-> r.xsrc, notify |-> r.ret, kind |-> "trigger"]
        ELSE IF offset >= XIVE_ESB_STORE_EOI /\ offset <= XIVE_ESB_STORE_EOI + 1023
        THEN IF BitAnd(xsrc.esb_flags, XIVE_SRC_STORE_EOI) = 0
             THEN [xsrc |-> xsrc, notify |-> FALSE, kind |-> "invalid_store_eoi"]
             ELSE LET r == xive_source_esb_eoi(xsrc, srcno)
                  IN  [xsrc |-> r.xsrc, notify |-> r.ret, kind |-> "eoi"]
        ELSE IF offset >= XIVE_ESB_SET_PQ_00 /\ offset <= XIVE_ESB_SET_PQ_11 + 255
        THEN [xsrc |-> xive_source_esb_set(xsrc, srcno, (offset \div 256) % 4).xsrc,
              notify |-> FALSE, kind |-> "set_pq"]
        ELSE [xsrc |-> xsrc, notify |-> FALSE, kind |-> "invalid"]

\* xive_source_set_irq() that forwards every rising edge of an MSI
xive_source_set_irq_edge(xsrc, srcno, val) ==
    IF xive_source_irq_is_lsi(xsrc, srcno)
    THEN IF val # 0
         THEN xive_source_lsi_trigger(
                  [xsrc EXCEPT !.status[srcno] =
                       BitOr(xsrc.status[srcno], XIVE_STATUS_ASSERTED)], srcno)
         ELSE [xsrc |-> [xsrc EXCEPT !.status[srcno] =
                             BitClear(xsrc.status[srcno], XIVE_STATUS_ASSERTED)],
               ret |-> FALSE]
    ELSE IF val # 0
         THEN [xsrc |-> xive_source_esb_trigger(xsrc, srcno).xsrc,
               ret |-> xive_source_esb_get(xsrc, srcno) # XIVE_ESB_OFF]
         ELSE [xsrc |-> xsrc, ret |-> FALSE]

\* What raising or lowering an input line does: [xsrc, notify]
xive_source_set_irq(xsrc, srcno, val) ==
    IF xive_source_irq_is_lsi(xsrc, srcno)
    THEN IF val # 0
         THEN xive_source_lsi_trigger(
                  [xsrc EXCEPT !.status[srcno] =
                       BitOr(xsrc.status[srcno], XIVE_STATUS_ASSERTED)], srcno)
         ELSE [xsrc |-> [xsrc EXCEPT !.status[srcno] =
                             BitClear(xsrc.status[srcno], XIVE_STATUS_ASSERTED)],
               ret |-> FALSE]
    ELSE IF val # 0
         THEN xive_source_esb_trigger(xsrc, srcno)
         ELSE [xsrc |-> xsrc, ret |-> FALSE]

\* xive_source_reset() that clears the status bytes
xive_source_reset_clear(xsrc) == [xsrc EXCEPT !.status = [n \in DOMAIN xsrc.status |-> 0]]

xive_source_reset(xsrc) == [xsrc EXCEPT !.status = [n \in DOMAIN xsrc.status |-> 1]]

(***************************************************************************)
(* Event queues.  An EQ descriptor is a record of the fields of its words: *)
(* w0: valid, enqueue, ucond_notify, qsize; w1: generation, page_off, esn, *)
(* ese; w2/w3: qaddr; w6: format, nvt_blk, nvt_idx; w7.  Guest memory is a *)
(* function from the byte addresses written so far to bytes.               *)
(***************************************************************************)
RamSize == 8192

dma_memory_write(mem, addr, bytes) ==
    IF addr + Len(bytes) <= RamSize
    THEN [ok |-> TRUE,
          mem |-> [a \in DOMAIN mem \cup (addr .. addr + Len(bytes) - 1) |->
                      IF a >= addr /\ a < addr + Len(bytes)
                      THEN bytes[a - addr + 1] ELSE mem[a]]]
    ELSE [ok |-> FALSE, mem |-> mem]

\* The queue word without the swap to big endian
eq_qdata_le(qgen, data) ==
    << data[4], data[3], data[2], qgen * 128 + (data[1] % 128) >>

\* cpu_to_be32((qgen << 31) | (data & 0x7fffffff)), data a tuple of 4 bytes
\* The queue entry with the generation bit always set
eq_qdata_set(qgen, data) ==
    << 128 + (data[1] % 128), data[2], data[3], data[4] >>

eq_qdata(qgen, data) ==
    << qgen * 128 + (data[1] % 128), data[2], data[3], data[4] >>

\* xive_eq_push() that keeps the generation when the queue index wraps
xive_eq_push_nogen(eq, data, mem) ==
    LET qaddr    == eq.qaddr + eq.page_off * 4
        qentries == 2 ^ (eq.qsize + 10)
        w        == dma_memory_write(mem, qaddr, eq_qdata(eq.generation, data))
    IN  IF ~w.ok
        THEN [eq |-> eq, mem |-> mem, pushed |-> 0]
        ELSE [eq |-> [eq EXCEPT !.page_off = (eq.page_off + 1) % qentries],
              mem |-> w.mem, pushed |-> 1]

\* Returns [eq, mem, pushed]
xive_eq_push(eq, data, mem) ==
    LET qaddr    == eq.qaddr + eq.page_off * 4
        qentries == 2 ^ (eq.qsize + 10)
        w        == dma_memory_write(mem, qaddr, eq_qdata(eq.generation, data))
        qindex   == (eq.page_off + 1) % qentries
    IN  IF ~w.ok
        THEN [eq |-> eq, mem |-> mem, pushed |-> 0]
        ELSE [eq |-> [eq EXCEPT !.page_off = qindex,
                                !.generation = IF qindex = 0 THEN 1 - @ ELSE @],
              mem |-> w.mem, pushed |-> 1]

\* The fields of w7
EQ_W7_F0_IGNORE(w7) == w7[1] >= 128
EQ_W7_F0_PRIORITY(w7) == w7[4]
EQ_W7_F1_LOG_SERVER_ID(w7) == << w7[1] % 128, w7[2], w7[3], w7[4] >>

(***************************************************************************)
(* Router tables: each is a function from the entries that exist to        *)
(* descriptors; a lookup of an entry that does not exist fails.            *)
(***************************************************************************)
xive_router_get_ive(rt, lisn) == lisn \in DOMAIN rt.ivt
xive_router_get_eq(rt, eq_blk, eq_idx) == << eq_blk, eq_idx >> \in DOMAIN rt.eqt
xive_router_set_eq(rt, eq_blk, eq_idx, eq) ==
    [rt EXCEPT !.eqt[<< eq_blk, eq_idx >>] = eq]
xive_router_get_vp(rt, vp_blk, vp_idx) == << vp_blk, vp_idx >> \in DOMAIN rt.vpt
xive_router_set_vp(rt, vp_blk, vp_idx, vp) ==
    [rt EXCEPT !.vpt[<< vp_blk, vp_idx >>] = vp]

(***************************************************************************)
(* Presenter                                                               *)
(***************************************************************************)
tctx_hw_cam_line(block_group, chip_id, tid) ==
    IF block_group
    THEN 2048 + (chip_id % 16) * 128 + (tid % 128)
    ELSE (chip_id % 16) * 2048 + 128 + (tid % 128)

tctx_cam_line(vp_blk, vp_idx) == BitOr(vp_blk * (2 ^ 19), vp_idx)

xive_tctx_hw_cam(tctx, block_group) ==
    tctx_hw_cam_line(block_group, (tctx.pir \div 256) % 16, tctx.pir % 128)

\* The fields of a ring's WORD2, read big-endian from the register bytes
w2_valid(regs, ring) == regs[ring + TM_WORD2] >= 128
w2_cam(regs, ring) ==
    regs[ring + TM_WORD2 + 1] * 65536 + regs[ring + TM_WORD2 + 2] * 256
        + regs[ring + TM_WORD2 + 3]
w2_logic_serv(regs, ring) ==
    << regs[ring + TM_WORD2] % 128, regs[ring + TM_WORD2 + 1],
       regs[ring + TM_WORD2 + 2], regs[ring + TM_WORD2 + 3] >>

xive_tctx_ring_match(tctx, ring, vp_blk, vp_idx, cam_ignore, logic_serv) ==
    LET regs == tctx.regs
        cam  == tctx_cam_line(vp_blk, vp_idx)
        block_group == FALSE
    IN  IF ring = TM_QW3_HV_PHYS
        THEN w2_valid(regs, ring)
             /\ xive_tctx_hw_cam(tctx, block_group)
                    = tctx_hw_cam_line(block_group, vp_blk, vp_idx % 256)
        ELSE IF ring = TM_QW2_HV_POOL \/ ring = TM_QW1_OS
        THEN w2_valid(regs, ring) /\ cam = w2_cam(regs, ring)
        ELSE w2_valid(regs, ring) /\ cam = w2_cam(regs, ring)
             /\ w2_valid(regs, ring) /\ logic_serv = w2_logic_serv(regs, ring)

\* The matching ring, -1 when there is none
xive_presenter_tctx_match(tctx, format, vp_blk, vp_idx, cam_ignore, logic_serv) ==
    IF format = 0
    THEN IF cam_ignore THEN -1
         ELSE IF xive_tctx_ring_match(tctx, TM_QW3_HV_PHYS, vp_blk, vp_idx, FALSE,
                                      << 0, 0, 0, 0 >>)
         THEN TM_QW3_HV_PHYS
         ELSE IF xive_tctx_ring_match(tctx, TM_QW2_HV_POOL, vp_blk, vp_idx, FALSE,
                                      << 0, 0, 0, 0 >>)
         THEN TM_QW2_HV_POOL
         ELSE IF xive_tctx_ring_match(tctx, TM_QW1_OS, vp_blk, vp_idx, FALSE,
                                      << 0, 0, 0, 0 >>)
         THEN TM_QW1_OS
         ELSE -1
    ELSE IF xive_tctx_ring_match(tctx, TM_QW0_USER, vp_blk, vp_idx, FALSE, logic_serv)
         THEN TM_QW0_USER
         ELSE -1

\* CPU_FOREACH over CPUs n .. NrCpus - 1 with the match found so far:
\* [found, cpu, ring]; cpu = -1 while no context has matched.
RECURSIVE presenter_scan(_, _, _, _, _, _, _, _)
presenter_scan(tctxs, n, match, format, vp_blk, vp_idx, cam_ignore, logic_serv) ==
    IF n >= NrCpus
    THEN [match EXCEPT !.found = (match.cpu # -1)]
    ELSE LET ring == xive_presenter_tctx_match(tctxs[n], format, vp_blk, vp_idx,
                                               cam_ignore, logic_serv)
         IN  IF ring # -1
             THEN IF match.cpu # -1
                  THEN [match EXCEPT !.found = FALSE]
                  ELSE presenter_scan(tctxs, n + 1,
                                      [found |-> FALSE, cpu |-> n, ring |-> ring],
                                      format, vp_blk, vp_idx, cam_ignore, logic_serv)
             ELSE presenter_scan(tctxs, n + 1, match, format, vp_blk, vp_idx,
                                 cam_ignore, logic_serv)

xive_presenter_match(rt, format, vp_blk, vp_idx, cam_ignore, priority, logic_serv) ==
    presenter_scan(rt.tctx, 0, [found |-> FALSE, cpu |-> -1, ring |-> 0],
                   format, vp_blk, vp_idx, cam_ignore, logic_serv)

\* xive_presenter_notify() that records nothing in the VP when no context is
\* found
xive_presenter_notify_drop(rt, format, vp_blk, vp_idx, cam_ignore, priority, logic_serv) ==
    IF ~xive_router_get_vp(rt, vp_blk, vp_idx)
    THEN rt
    ELSE LET vp == rt.vpt[<< vp_blk, vp_idx >>]
             match == xive_presenter_match(rt, format, vp_blk, vp_idx, cam_ignore,
                                           priority, logic_serv)
         IN  IF ~vp.valid
             THEN rt
             ELSE IF match.found
             THEN [rt EXCEPT !.tctx[match.cpu] =
                      xive_tctx_notify(
                          [rt.tctx[match.cpu] EXCEPT !.regs =
                              ipb_update(rt.tctx[match.cpu].regs, match.ring, priority)],
                          match.ring)]
             ELSE rt

\* A VP descriptor is [valid, w45]: w45 the 8 bytes of its words w4 and w5 as
\* they lie in memory, on which ipb_update() works as on a ring.
xive_presenter_notify(rt, format, vp_blk, vp_idx, cam_ignore, priority, logic_serv) ==
    IF ~xive_router_get_vp(rt, vp_blk, vp_idx)
    THEN rt
    ELSE LET vp == rt.vpt[<< vp_blk, vp_idx >>]
             match == xive_presenter_match(rt, format, vp_blk, vp_idx, cam_ignore,
                                           priority, logic_serv)
         IN  IF ~vp.valid
             THEN rt
             ELSE IF match.found
             THEN [rt EXCEPT !.tctx[match.cpu] =
                      xive_tctx_notify(
                          [rt.tctx[match.cpu] EXCEPT !.regs =
                              ipb_update(rt.tctx[match.cpu].regs, match.ring, priority)],
                          match.ring)]
             ELSE xive_router_set_vp(rt, vp_blk, vp_idx,
                      [vp EXCEPT !.w45 = ipb_update(vp.w45, 0, priority)])

(***************************************************************************)
(* Router                                                                  *)
(***************************************************************************)
\* xive_router_eq_notify() with the ESn step ahead of the masked check
xive_router_eq_notify_esn_first(rt, eq_blk, eq_idx, eq_data) ==
    IF ~xive_router_get_eq(rt, eq_blk, eq_idx)
    THEN rt
    ELSE LET eq0 == rt.eqt[<< eq_blk, eq_idx >>]
             p   == xive_eq_push(eq0, eq_data, rt.mem)
             \* after the ENQUEUE step
             eq1 == IF eq0.enqueue THEN p.eq ELSE eq0
             rt1 == IF eq0.enqueue
                    THEN [xive_router_set_eq(rt, eq_blk, eq_idx, eq1)
                             EXCEPT !.mem = p.mem, !.pushes = @ + p.pushed]
                    ELSE rt
             format   == eq1.format
             priority == EQ_W7_F0_PRIORITY(eq1.w7)
             t   == xive_esb_trigger(eq1.esn)
             \* after the ESn step
             rt2 == IF ~eq1.ucond_notify /\ t.pq # eq1.esn
                    THEN xive_router_set_eq(rt1, eq_blk, eq_idx,
                                            [eq1 EXCEPT !.esn = t.pq])
                    ELSE rt1
         IN  IF ~eq0.valid
             THEN rt
             ELSE IF ~eq1.ucond_notify /\ ~t.ret
             THEN rt2
             ELSE IF format = 0 /\ priority = 255
             THEN rt2
             ELSE xive_presenter_notify(rt2, format, eq1.nvt_blk, eq1.nvt_idx,
                                        EQ_W7_F0_IGNORE(eq1.w7), priority,
                                        EQ_W7_F1_LOG_SERVER_ID(eq1.w7))

xive_router_eq_notify(rt, eq_blk, eq_idx, eq_data) ==
    IF ~xive_router_get_eq(rt, eq_blk, eq_idx)
    THEN rt
    ELSE LET eq0 == rt.eqt[<< eq_blk, eq_idx >>]
             p   == xive_eq_push(eq0, eq_data, rt.mem)
             \* after the ENQUEUE step
             eq1 == IF eq0.enqueue THEN p.eq ELSE eq0
             rt1 == IF eq0.enqueue
                    THEN [xive_router_set_eq(rt, eq_blk, eq_idx, eq1)
                             EXCEPT !.mem = p.mem, !.pushes = @ + p.pushed]
                    ELSE rt
             format   == eq1.format
             priority == EQ_W7_F0_PRIORITY(eq1.w7)
             t   == xive_esb_trigger(eq1.esn)
             \* after the ESn step
             rt2 == IF ~eq1.ucond_notify /\ t.pq # eq1.esn
                    THEN xive_router_set_eq(rt1, eq_blk, eq_idx,
                                            [eq1 EXCEPT !.esn = t.pq])
                    ELSE rt1
         IN  IF ~eq0.valid
             THEN rt
             ELSE IF format = 0 /\ priority = 255
             THEN rt1
             ELSE IF ~eq1.ucond_notify /\ ~t.ret
             THEN rt2
             ELSE xive_presenter_notify(rt2, format, eq1.nvt_blk, eq1.nvt_idx,
                                        EQ_W7_F0_IGNORE(eq1.w7), priority,
                                        EQ_W7_F1_LOG_SERVER_ID(eq1.w7))

\* xive_router_notify() that ignores the MASKED bit of the IVE
xive_router_notify_masked(rt, lisn) ==
    IF ~xive_router_get_ive(rt, lisn)
    THEN rt
    ELSE LET ive == rt.ivt[lisn]
         IN  IF ~ive.valid THEN rt
             ELSE xive_router_eq_notify(rt, ive.eq_blk, ive.eq_idx, ive.eq_data)

\* An IVE is [valid, masked, eq_blk, eq_idx, eq_data]
xive_router_notify(rt, lisn) ==
    IF ~xive_router_get_ive(rt, lisn)
    THEN rt
    ELSE LET ive == rt.ivt[lisn]
         IN  IF ~ive.valid THEN rt
             ELSE IF ive.masked THEN rt
             ELSE xive_router_eq_notify(rt, ive.eq_blk, ive.eq_idx, ive.eq_data)

\* xive_source_notify(): the fabric's notify is the router's
xive_source_notify(rt, srcno) == xive_router_notify(rt, srcno)

(***************************************************************************)
(* Thread context reset.  A context also carries what it takes from its    *)
(* CPU: pir (SPR_PIR), vcpu_id, hv (MSR[HV]) and the router's chip_id.     *)
(***************************************************************************)
xive_tctx_reset(tctx) ==
    LET cam == tctx_cam_line(tctx.chip_id, tctx.vcpu_id)
        defaults == [r \in 0 .. 63 |->
                        IF r \in {TM_QW1_OS + TM_LSMFB, TM_QW1_OS + TM_ACK_CNT,
                                  TM_QW1_OS + TM_AGE}
                        THEN 255
                        ELSE IF r = TM_QW1_OS + TM_PIPR THEN ipb_to_pipr(0)
                        ELSE 0]
        os_cam == [r \in 0 .. 63 |->
                      IF r = TM_QW1_OS + TM_WORD2
                      THEN BitOr(128, (cam \div 16777216) % 256)
                      ELSE IF r = TM_QW1_OS + TM_WORD2 + 1 THEN (cam \div 65536) % 256
                      ELSE IF r = TM_QW1_OS + TM_WORD2 + 2 THEN (cam \div 256) % 256
                      ELSE IF r = TM_QW1_OS + TM_WORD2 + 3 THEN cam % 256
                      ELSE defaults[r]]
    IN  [tctx EXCEPT !.regs = IF ~tctx.hv THEN os_cam ELSE defaults]

(***************************************************************************)
(* State                                                                   *)
(***************************************************************************)
VARIABLES
    xsrc,     \* the event source: [status, lsi_map, esb_shift, esb_flags]
    ivt,      \* IVE table, by LISN
    eqt,      \* EQ descriptors, by <<block, index>>
    vpt,      \* VP descriptors, by <<block, index>>
    mem,      \* guest memory written by the router
    tctx,     \* thread contexts, by CPU
    pushes,   \* number of event queue entries written so far
    last,     \* the last callback: [op, kind, ret, notify]
    eq0       \* the EQ descriptors the machine started with

vars == << xsrc, ivt, eqt, vpt, mem, tctx, pushes, last, eq0 >>

Irqs == 0 .. NrIrqs - 1
Cpus == 0 .. NrCpus - 1

\* The router as the callbacks see it
Rt == [ivt |-> ivt, eqt |-> eqt, vpt |-> vpt, mem |-> mem, tctx |-> tctx,
       pushes |-> pushes]

Aborted == \E c \in Cpus : tctx[c].fatal

\* The guards every callback has in the model: the program has not aborted and
\* the event queues hold no more than MaxPush entries afterwards.
Commit(rt) ==
    /\ ~Aborted
    /\ rt.pushes <= MaxPush
    /\ ivt' = rt.ivt
    /\ eqt' = rt.eqt
    /\ vpt' = rt.vpt
    /\ mem' = rt.mem
    /\ tctx' = rt.tctx
    /\ pushes' = rt.pushes
    /\ eq0' = eq0

(***************************************************************************)
(* Configuration the machine gives the devices                             *)
(***************************************************************************)
VcpuBase == 5

\* Even sources are MSIs, odd sources LSIs
LsiMap == { n \in Irqs : n % 2 = 1 }

\* <<esb_shift, esb_flags>> of the source: one page or two, of 4K or 64K, with
\* and without Store EOI
SrcConfigs == { << XIVE_ESB_4K, 0 >>, << XIVE_ESB_4K_2PAGE, XIVE_SRC_STORE_EOI >>,
                << XIVE_ESB_64K, XIVE_SRC_STORE_EOI >>, << XIVE_ESB_64K_2PAGE, 0 >> }

EqData == << 128, 0, 171, 205 >>

\* Sources 4i .. 4i + 3 are routed to EQ 0/i
IveInit == [n \in Irqs |->
               [valid |-> TRUE, masked |-> FALSE, eq_blk |-> 0,
                eq_idx |-> (n \div 4) % NrEqs, eq_data |-> EqData]]

EqKeys == { << 0, i >> : i \in 0 .. NrEqs - 1 }

\* EQ 0/i has priority 4 - i and targets the VP of CPU i; all notify
\* unconditionally.  enq is the ENQUEUE flag and off the queue index of all.
EqInit(enq, off) ==
    [k \in EqKeys |->
        [valid |-> TRUE, enqueue |-> enq, ucond_notify |-> TRUE,
         qsize |-> 0, generation |-> 0, page_off |-> off,
         esn |-> XIVE_ESB_RESET, ese |-> XIVE_ESB_OFF,
         qaddr |-> (k[2] % 2) * 4096,
         format |-> 0, nvt_blk |-> 0, nvt_idx |-> VcpuBase + k[2],
         w7 |-> << 0, 0, 0, 4 - (k[2] % 4) >>]]

\* The VP whose block and index make the hardwired CAM line of thread c of
\* chip 0
PhysVp(c) == 128 + c

\* The VPs the EQs target, and those of the hardware threads
VpInit == [k \in { << 0, VcpuBase + i >> : i \in 0 .. NrEqs - 1 }
                     \cup { << 0, PhysVp(c) >> : c \in Cpus } |->
              [valid |-> TRUE, w45 |-> [b \in 0 .. 7 |-> 0]]]

TctxInit(hv) ==
    [c \in Cpus |->
        xive_tctx_reset([regs |-> [r \in 0 .. 63 |-> 0], output |-> FALSE,
                         fatal |-> FALSE, pir |-> c, vcpu_id |-> VcpuBase + c,
                         chip_id |-> 0, hv |-> hv])]

\* The machine after its devices are realized and reset, for a source of the
\* given page settings and flags, an IVE table, an EQ table and the CPUs'
\* MSR[HV].
InitOf(srcs, ives, eqs, hvs) ==
    /\ \E c \in srcs :
          xsrc = xive_source_reset([status |-> [n \in Irqs |-> 0], lsi_map |-> LsiMap,
                                    esb_shift |-> c[1], esb_flags |-> c[2]])
    /\ ivt \in ives
    /\ eqt \in eqs
    /\ eq0 = eqt
    /\ vpt = VpInit
    /\ mem = [a \in {} |-> 0]
    /\ \E hv \in hvs : tctx = TctxInit(hv)
    /\ pushes = 0
    /\ last = [op |-> "init", kind |-> "none", ret |-> U64(0),
               notify |-> FALSE]

\* The same with every source routed by a valid, unmasked IVE
InitWith(srcs, eqs, hvs) == InitOf(srcs, { IveInit }, eqs, hvs)

(***************************************************************************)
(* Callbacks                                                               *)
(***************************************************************************)
\* qemu_irq line srcno of the source is set to val
SetIrq(srcno, val) ==
    LET r == xive_source_set_irq(xsrc, srcno, val)
    IN  /\ last' = [op |-> "set_irq", kind |-> IF val # 0 THEN "raise" ELSE "lower",
                    ret |-> U64(0), notify |-> r.ret]
        /\ xsrc' = r.xsrc
        /\ Commit(IF r.ret THEN xive_source_notify(Rt, srcno) ELSE Rt)

\* The address of offset off in page half (0 or 1) of source srcno
EsbAddr(srcno, half, off) ==
    srcno * (2 ^ xsrc.esb_shift)
        + (IF xive_source_esb_has_2page(xsrc) THEN half * (2 ^ (xsrc.esb_shift - 1))
           ELSE 0)
        + off

\* The pages of a source: the trigger and the management page, or the one page
EsbHalves == IF xive_source_esb_has_2page(xsrc) THEN {0, 1} ELSE {0}

EsbOffsets == { 0, 1024, 2040, 2048, 3072, 3328, 3584, 3840 }

\* 8-byte load from the ESB MMIO region
EsbRead(srcno, half, off) ==
    LET r == xive_source_esb_read(xsrc, EsbAddr(srcno, half, off))
    IN  /\ last' = [op |-> "esb_read", kind |-> r.kind,
                    ret |-> r.ret, notify |-> r.notify]
        /\ xsrc' = r.xsrc
        /\ Commit(IF r.notify THEN xive_source_notify(Rt, srcno) ELSE Rt)

\* 8-byte store to the ESB MMIO region
EsbWrite(srcno, half, off) ==
    LET r == xive_source_esb_write(xsrc, EsbAddr(srcno, half, off))
    IN  /\ last' = [op |-> "esb_write", kind |-> r.kind,
                    ret |-> U64(0), notify |-> r.notify]
        /\ xsrc' = r.xsrc
        /\ Commit(IF r.notify THEN xive_source_notify(Rt, srcno) ELSE Rt)

\* Device reset of the source
SourceReset ==
    /\ Commit(Rt)
    /\ xsrc' = xive_source_reset(xsrc)
    /\ last' = [op |-> "source_reset", kind |-> "none", ret |-> U64(0),
                notify |-> FALSE]

\* Reset handler of the thread context of a CPU
TctxReset(cpu) ==
    /\ Commit([Rt EXCEPT !.tctx[cpu] = xive_tctx_reset(tctx[cpu])])
    /\ UNCHANGED xsrc
    /\ last' = [op |-> "tctx_reset", kind |-> "none", ret |-> U64(0),
                notify |-> FALSE]

\* The TIMA offset of register or operation off seen through a page
TmOffset(page, off) == page * (2 ^ TM_SHIFT) + off

\* Load of size bytes from the TIMA by CPU cpu (current_cpu)
TmRead(cpu, page, off, size) ==
    LET r == xive_tm_read(tctx[cpu], TmOffset(page, off), size)
    IN  /\ last' = [op |-> "tm_read", kind |-> r.kind, ret |-> r.ret,
                    notify |-> FALSE]
        /\ UNCHANGED xsrc
        /\ Commit([Rt EXCEPT !.tctx[cpu] = r.tctx])

\* Store of the size bytes value to the TIMA by CPU cpu
TmWrite(cpu, page, off, size, value) ==
    LET r == xive_tm_write(tctx[cpu], TmOffset(page, off), value, size)
    IN  /\ last' = [op |-> "tm_write", kind |-> r.kind, ret |-> U64(0),
                    notify |-> FALSE]
        /\ UNCHANGED xsrc
        /\ Commit([Rt EXCEPT !.tctx[cpu] = r.tctx])

(***************************************************************************)
(* The ESB pages of the event queues: the even page of an EQ manages its  *)
(* ESn field, the odd page its ESe field.                                  *)
(***************************************************************************)
EqEsbShift == XIVE_ESB_64K

\* xive_eq_source_read() that takes the odd page for the ESn field
xive_eq_source_read_odd(rt, esb_shift, addr) ==
    LET offset == addr % 4096
        eq_blk == 0
        eq_idx == addr \div (2 ^ (esb_shift + 1))
        bad(kind) == [rt |-> rt, ret |-> MinusOne, kind |-> kind, set_eq |-> FALSE]
    IN  IF ~xive_router_get_eq(rt, eq_blk, eq_idx)
        THEN bad("no_eq")
        ELSE IF ~rt.eqt[<< eq_blk, eq_idx >>].valid
        THEN bad("invalid_eq")
        ELSE LET eq   == rt.eqt[<< eq_blk, eq_idx >>]
                 esn  == ~addr_is_even(addr, esb_shift)
                 pq   == IF esn THEN eq.esn ELSE eq.ese
                 e    == xive_esb_eoi(pq)
                 r    == IF offset <= XIVE_ESB_LOAD_EOI + 2047
                         THEN [pq |-> e.pq, ret |-> IF e.ret THEN 1 ELSE 0,
                               kind |-> "eoi"]
                         ELSE IF offset <= XIVE_ESB_GET + 1023
                         THEN [pq |-> pq, ret |-> pq, kind |-> "get"]
                         ELSE [pq |-> xive_esb_set(pq, (offset \div 256) % 4).pq,
                               ret |-> xive_esb_set(pq, (offset \div 256) % 4).ret,
                               kind |-> "set_pq"]
                 new  == IF esn THEN [eq EXCEPT !.esn = r.pq]
                                ELSE [eq EXCEPT !.ese = r.pq]
             IN  [rt |-> IF r.pq # pq
                         THEN xive_router_set_eq(rt, eq_blk, eq_idx, new)
                         ELSE rt,
                  ret |-> U64(r.ret), kind |-> r.kind, set_eq |-> r.pq # pq]

\* The router after the load, the value returned, the operation decoded and
\* whether the EQ was written back.
xive_eq_source_read(rt, esb_shift, addr) ==
    LET offset == addr % 4096
        eq_blk == 0
        eq_idx == addr \div (2 ^ (esb_shift + 1))
        bad(kind) == [rt |-> rt, ret |-> MinusOne, kind |-> kind, set_eq |-> FALSE]
    IN  IF ~xive_router_get_eq(rt, eq_blk, eq_idx)
        THEN bad("no_eq")
        ELSE IF ~rt.eqt[<< eq_blk, eq_idx >>].valid
        THEN bad("invalid_eq")
        ELSE LET eq   == rt.eqt[<< eq_blk, eq_idx >>]
                 esn  == addr_is_even(addr, esb_shift)
                 pq   == IF esn THEN eq.esn ELSE eq.ese
                 e    == xive_esb_eoi(pq)
                 r    == IF offset <= XIVE_ESB_LOAD_EOI + 2047
                         THEN [pq |-> e.pq, ret |-> IF e.ret THEN 1 ELSE 0,
                               kind |-> "eoi"]
                         ELSE IF offset <= XIVE_ESB_GET + 1023
                         THEN [pq |-> pq, ret |-> pq, kind |-> "get"]
                         ELSE [pq |-> xive_esb_set(pq, (offset \div 256) % 4).pq,
                               ret |-> xive_esb_set(pq, (offset \div 256) % 4).ret,
                               kind |-> "set_pq"]
                 new  == IF esn THEN [eq EXCEPT !.esn = r.pq]
                                ELSE [eq EXCEPT !.ese = r.pq]
             IN  [rt |-> IF r.pq # pq
                         THEN xive_router_set_eq(rt, eq_blk, eq_idx, new)
                         ELSE rt,
                  ret |-> U64(r.ret), kind |-> r.kind, set_eq |-> r.pq # pq]

\* EQ ESB MMIO stores are invalid
xive_eq_source_write(rt, esb_shift, addr) == rt

EqEsbAddr(eq_idx, half, off) ==
    eq_idx * (2 ^ (EqEsbShift + 1)) + half * (2 ^ EqEsbShift) + off

\* The access made is recorded in last: at = <<eq_idx, half, off>>
EqEsbRead(eq_idx, half, off) ==
    LET r == xive_eq_source_read(Rt, EqEsbShift, EqEsbAddr(eq_idx, half, off))
    IN  /\ last' = [op |-> "eq_esb_read", kind |-> r.kind, ret |-> r.ret,
                    notify |-> FALSE, at |-> << eq_idx, half, off >>,
                    set_eq |-> r.set_eq]
        /\ UNCHANGED xsrc
        /\ Commit(r.rt)

EqEsbWrite(eq_idx, half, off) ==
    /\ last' = [op |-> "eq_esb_write", kind |-> "invalid", ret |-> U64(0),
                notify |-> FALSE, at |-> << eq_idx, half, off >>,
                set_eq |-> FALSE]
    /\ UNCHANGED xsrc
    /\ Commit(xive_eq_source_write(Rt, EqEsbShift, EqEsbAddr(eq_idx, half, off)))

\* TmRead and TmWrite that record in last the access made:
\* at = <<page, off, size>>, and the value stored
TmReadAt(cpu, page, off, size) ==
    LET r == xive_tm_read(tctx[cpu], TmOffset(page, off), size)
    IN  /\ last' = [op |-> "tm_read", kind |-> r.kind, ret |-> r.ret,
                    notify |-> FALSE, at |-> << page, off, size >>,
                    value |-> << >>]
        /\ UNCHANGED xsrc
        /\ Commit([Rt EXCEPT !.tctx[cpu] = r.tctx])

TmWriteAt(cpu, page, off, size, value) ==
    LET r == xive_tm_write(tctx[cpu], TmOffset(page, off), value, size)
    IN  /\ last' = [op |-> "tm_write", kind |-> r.kind, ret |-> U64(0),
                    notify |-> FALSE, at |-> << page, off, size >>,
                    value |-> value]
        /\ UNCHANGED xsrc
        /\ Commit([Rt EXCEPT !.tctx[cpu] = r.tctx])

(***************************************************************************)
(* Spec: the event source and what its notifications do downstream.        *)
(* Every page setting and flag of the source; the guest drives the source  *)
(* lines and the ESB pages.                                                *)
(***************************************************************************)
Init == InitWith(SrcConfigs, { EqInit(TRUE, 0) }, { FALSE })

Next ==
    \/ \E srcno \in Irqs, val \in {0, 1} : SetIrq(srcno, val)
    \/ \E srcno \in Irqs, half \in EsbHalves, off \in EsbOffsets :
          EsbRead(srcno, half, off)
    \/ \E srcno \in Irqs, half \in EsbHalves, off \in EsbOffsets :
          EsbWrite(srcno, half, off)
    \/ SourceReset

Spec == Init /\ [][Next]_vars

(***************************************************************************)
(* SpecTctx: the thread context of CPU 0 under the special operations of   *)
(* the TIMA, raw stores, reset, and the presenter's notifications, which   *)
(* MSI 0 causes (its EQ does not enqueue, so that they are unbounded).     *)
(***************************************************************************)
InitTctx == InitWith({ << XIVE_ESB_64K_2PAGE, 0 >> }, { EqInit(FALSE, 0) }, { FALSE })

\* The accesses the guest makes to the TIMA: [off, size] of loads, and
\* [off, size, value] of stores
TmLoads ==
    { [off |-> TM_SPC_ACK_OS_REG, size |-> 2],
      [off |-> TM_QW1_OS, size |-> 8],
      [off |-> TM_QW1_OS, size |-> 2] }

TmStores ==
    { [off |-> TM_QW1_OS + TM_CPPR, size |-> 1, value |-> << v >>] :
          v \in {0, 2, 5, 9, 255} }
    \cup { [off |-> TM_SPC_SET_OS_PENDING, size |-> 1, value |-> << v >>] :
          v \in {1, 6, 9} }
    \cup { [off |-> TM_QW1_OS, size |-> 4, value |-> << 0, 3, 64, 0 >>] }

NextTctx ==
    \/ SetIrq(0, 1)
    \/ EsbRead(0, 1, XIVE_ESB_SET_PQ_00)
    \/ TctxReset(0)
    \/ \E page \in 0 .. 3, a \in TmLoads : TmRead(0, page, a.off, a.size)
    \/ \E page \in 0 .. 3, a \in TmStores : TmWrite(0, page, a.off, a.size, a.value)

SpecTctx == InitTctx /\ [][NextTctx]_vars

(***************************************************************************)
(* SpecEq: the event queue of EQ 0/0, to which both sources are routed.    *)
(* The descriptor starts with its queue index at 0 or just before the end  *)
(* of the queue page, with either generation, with its queue in RAM or     *)
(* just beyond it, and notifying unconditionally or through its ESn.       *)
(***************************************************************************)
\* The entries of a queue of QSIZE 0, and the queue index QTail entries
\* before its end
QEntries == 2 ^ 10
QTail == 2
QStart == QEntries - QTail

\* The EQ table of EqInit with the queue index, generation, queue address and
\* UCOND_NOTIFY flag of the descriptors set
EqAt(off, gen, qaddr, ucond) ==
    [k \in EqKeys |->
        [EqInit(TRUE, off)[k] EXCEPT !.generation = gen, !.qaddr = qaddr,
                                     !.ucond_notify = ucond]]

EqConfigs ==
    { EqAt(off, gen, 0, TRUE) : off \in {0, QStart, QStart + 1}, gen \in {0, 1} }
        \cup { EqAt(0, 0, RamSize, ucond) : ucond \in BOOLEAN }
        \cup { EqAt(QStart + 1, 1, 0, FALSE), EqInit(FALSE, 0) }

InitEq == InitWith({ << XIVE_ESB_64K_2PAGE, 0 >> }, EqConfigs, { FALSE })

NextEq ==
    \/ \E srcno \in Irqs, val \in {0, 1} : SetIrq(srcno, val)
    \/ \E srcno \in Irqs, off \in {XIVE_ESB_STORE_EOI, XIVE_ESB_SET_PQ_00} :
           EsbRead(srcno, 1, off)
    \/ \E srcno \in Irqs : EsbWrite(srcno, 0, 0)

SpecEq == InitEq /\ [][NextEq]_vars

(***************************************************************************)
(* SpecPres: the presenter.  MSI 0 notifies through EQ 0/0, which does not *)
(* enqueue and targets, in format 0, the VP of CPU 0 (with and without     *)
(* cam_ignore) or the VP of hardware thread 0, or in format 1 the logical  *)
(* server of the VP of CPU 0.  Through the HW page of the TIMA the guest   *)
(* dispatches and removes VPs on the rings of CPU 0, sets the CPPR of its  *)
(* OS and HV_PHYS rings, and dispatches the VP of CPU 0 on other CPUs.     *)
(***************************************************************************)
\* The EQ table of EqInit, not enqueuing, with the format, target VP index and
\* w7 of the descriptors set
EqPres(format, nvt_idx, w7) ==
    [k \in EqKeys |->
        [EqInit(FALSE, 0)[k] EXCEPT !.format = format, !.nvt_idx = nvt_idx,
                                    !.w7 = w7]]

PresConfigs ==
    { EqInit(FALSE, 0),
      EqPres(0, VcpuBase, << 128, 0, 0, 4 >>),
      EqPres(0, PhysVp(0), << 0, 0, 0, 4 >>),
      EqPres(1, VcpuBase, << 0, 0, 0, VcpuBase >>) }

InitPres == InitWith({ << XIVE_ESB_64K_2PAGE, 0 >> }, PresConfigs, { FALSE })

\* The stores of the guest to the TIMA: [cpu, off, size, value]
PresStores ==
    { [cpu |-> 0, off |-> ring + TM_WORD2, size |-> 4,
       value |-> << 128, 0, 0, vp >>] :
          ring \in {TM_QW1_OS, TM_QW2_HV_POOL}, vp \in {VcpuBase, PhysVp(0)} }
    \cup { [cpu |-> 0, off |-> TM_QW1_OS + TM_WORD2, size |-> 4,
            value |-> << 0, 0, 0, 0 >>],
           [cpu |-> 0, off |-> TM_QW0_USER + TM_WORD2, size |-> 4,
            value |-> << 128, 0, 0, VcpuBase >>],
           [cpu |-> 0, off |-> TM_QW3_HV_PHYS + TM_WORD2, size |-> 4,
            value |-> << 128, 0, 0, 0 >>],
           [cpu |-> 0, off |-> TM_QW3_HV_PHYS, size |-> 4,
            value |-> << 0, 255, 0, 0 >>],
           [cpu |-> 0, off |-> TM_QW1_OS + TM_CPPR, size |-> 1,
            value |-> << 255 >>] }
    \cup { [cpu |-> c, off |-> TM_QW1_OS + TM_WORD2, size |-> 4,
            value |-> << 128, 0, 0, VcpuBase >>] : c \in Cpus \ {0} }

NextPres ==
    \/ SetIrq(0, 1)
    \/ EsbRead(0, 1, XIVE_ESB_SET_PQ_00)
    \/ \E a \in PresStores : TmWrite(a.cpu, XIVE_TM_HW_PAGE, a.off, a.size, a.value)

SpecPres == InitPres /\ [][NextPres]_vars

(***************************************************************************)
(* SpecIve: the router under every IVE table in which the IVEs of the even *)
(* and of the odd sources are each absent, invalid, masked or valid and    *)
(* unmasked.  The EQs enqueue.                                             *)
(***************************************************************************)
IveKinds == {"absent", "invalid", "masked", "valid"}

\* The IVE table with the IVEs of the even sources of kind even and those of
\* the odd sources of kind odd
IveOf(even, odd) ==
    LET kind(n) == IF n % 2 = 0 THEN even ELSE odd
    IN  [n \in { m \in Irqs : kind(m) # "absent" } |->
            [IveInit[n] EXCEPT !.valid = (kind(n) # "invalid"),
                               !.masked = (kind(n) = "masked")]]

IveConfigs == { IveOf(even, odd) : even \in IveKinds, odd \in IveKinds }

InitIve == InitOf({ << XIVE_ESB_64K_2PAGE, 0 >> }, IveConfigs,
                  { EqInit(TRUE, 0) }, { FALSE })

NextIve ==
    \/ \E srcno \in Irqs, val \in {0, 1} : SetIrq(srcno, val)
    \/ \E srcno \in Irqs, off \in {XIVE_ESB_LOAD_EOI, XIVE_ESB_SET_PQ_00} :
           EsbRead(srcno, 1, off)
    \/ \E srcno \in Irqs : EsbWrite(srcno, 0, 0)

SpecIve == InitIve /\ [][NextIve]_vars

(***************************************************************************)
(* SpecEsb: the ESB pages of every page setting under loads below 0x400    *)
(* and stores in 0x400 - 0x7FF only, next to the source lines and the      *)
(* loads that set the PQ bits.  The EQs do not enqueue.                    *)
(***************************************************************************)
InitEsb == InitWith(SrcConfigs, { EqInit(FALSE, 0) }, { FALSE })

\* The offsets of the loads below 0x400 and of the stores in 0x400 - 0x7FF
LowLoads == { XIVE_ESB_LOAD_EOI, XIVE_ESB_STORE_EOI - 8 }
EoiStores == { XIVE_ESB_STORE_EOI, XIVE_ESB_GET - 8 }

NextEsb ==
    \/ \E srcno \in Irqs, val \in {0, 1} : SetIrq(srcno, val)
    \/ \E srcno \in Irqs, half \in EsbHalves,
          off \in LowLoads \cup {XIVE_ESB_SET_PQ_00, XIVE_ESB_SET_PQ_11} :
           EsbRead(srcno, half, off)
    \/ \E srcno \in Irqs, half \in EsbHalves, off \in EoiStores :
           EsbWrite(srcno, half, off)

SpecEsb == InitEsb /\ [][NextEsb]_vars

(***************************************************************************)
(* SpecTima: the raw region of the TIMA of CPU 0 under aligned loads and   *)
(* stores of 1, 2, 4 and 8 bytes through the four pages.                   *)
(***************************************************************************)
InitTima == InitWith({ << XIVE_ESB_64K_2PAGE, 0 >> }, { EqInit(FALSE, 0) }, { FALSE })

\* The loads: [off, size]
TimaLoads ==
    { [off |-> o, size |-> 1] : o \in {TM_QW1_OS + TM_NSR, TM_QW1_OS + TM_WORD2 + 3} }
    \cup { [off |-> o, size |-> 2] : o \in {TM_QW1_OS + TM_NSR, TM_QW1_OS + TM_WORD2 + 2} }
    \cup { [off |-> o, size |-> 4] :
              o \in {TM_QW0_USER, TM_QW0_USER + TM_WORD2, TM_QW1_OS, TM_QW1_OS + 4,
                     TM_QW1_OS + TM_WORD2, TM_QW2_HV_POOL + TM_WORD2,
                     TM_QW3_HV_PHYS + TM_WORD2, TM_QW3_HV_PHYS + 12} }
    \cup { [off |-> o, size |-> 8] :
              o \in {TM_QW0_USER, TM_QW1_OS, TM_QW1_OS + TM_WORD2, TM_QW2_HV_POOL,
                     TM_QW2_HV_POOL + TM_WORD2, TM_QW3_HV_PHYS,
                     TM_QW3_HV_PHYS + TM_WORD2} }

\* The stores: [off, size]; the byte stored to register r is 65 + r
TimaStores ==
    { [off |-> TM_QW1_OS + TM_NSR, size |-> 1],
      [off |-> TM_QW1_OS + TM_WORD2 + 2, size |-> 2],
      [off |-> TM_QW0_USER + TM_WORD2, size |-> 4],
      [off |-> TM_QW2_HV_POOL + TM_WORD2, size |-> 4],
      [off |-> TM_QW1_OS, size |-> 8],
      [off |-> TM_QW3_HV_PHYS + TM_WORD2, size |-> 8] }
TimaValue(a) == [i \in 1 .. a.size |-> 65 + a.off + i - 1]

NextTima ==
    \/ \E page \in 0 .. 3, a \in TimaLoads : TmReadAt(0, page, a.off, a.size)
    \/ \E page \in 0 .. 3, a \in TimaStores :
           TmWriteAt(0, page, a.off, a.size, TimaValue(a))

SpecTima == InitTima /\ [][NextTima]_vars

(***************************************************************************)
(* SpecEqEsb: the ESB pages of the event queues, next to a source whose    *)
(* triggers reach the ESn field of a queue that notifies conditionally.    *)
(***************************************************************************)
\* The EQs without a queue, EQ 1 not valid
EqNoQueue(ucond) ==
    [k \in EqKeys |->
        [EqInit(FALSE, 0)[k] EXCEPT !.ucond_notify = ucond, !.valid = (k[2] # 1)]]

InitEqEsb ==
    InitWith({ << XIVE_ESB_64K_2PAGE, 0 >> },
             { EqNoQueue(ucond) : ucond \in BOOLEAN }, { FALSE })

\* One offset for each decoded operation, and the last of the EOI range
EqEsbLoads ==
    { XIVE_ESB_LOAD_EOI, XIVE_ESB_GET - 8, XIVE_ESB_GET, XIVE_ESB_SET_PQ_00,
      XIVE_ESB_SET_PQ_01, XIVE_ESB_SET_PQ_10, XIVE_ESB_SET_PQ_11 }

NextEqEsb ==
    \/ SetIrq(0, 1)
    \/ EsbRead(0, 1, XIVE_ESB_SET_PQ_00)
    \/ \E eq_idx \in 0 .. NrEqs, half \in {0, 1}, off \in EqEsbLoads :
           EqEsbRead(eq_idx, half, off)
    \/ \E eq_idx \in 0 .. NrEqs, half \in {0, 1},
          off \in {XIVE_ESB_LOAD_EOI, XIVE_ESB_SET_PQ_11} :
           EqEsbWrite(eq_idx, half, off)

SpecEqEsb == InitEqEsb /\ [][NextEqEsb]_vars

(***************************************************************************)
(* SpecShot: one MSI routed to an enqueueing EQ of priority 4 whose VP is   *)
(* dispatched on CPU 0, the OS of which sets its CPPR and acknowledges.    *)
(***************************************************************************)
InitShot == InitWith({ << XIVE_ESB_64K_2PAGE, 0 >> }, { EqInit(TRUE, 0) }, { FALSE })

NextShot ==
    \/ SetIrq(0, 1)
    \/ EsbRead(0, 1, XIVE_ESB_SET_PQ_00)
    \/ EsbWrite(0, 0, 0)
    \/ \E v \in {0, 4, 255} :
           TmWrite(0, XIVE_TM_OS_PAGE, TM_QW1_OS + TM_CPPR, 1, << v >>)
    \/ TmRead(0, XIVE_TM_OS_PAGE, TM_SPC_ACK_OS_REG, 2)

SpecShot == InitShot /\ [][NextShot]_vars

(***************************************************************************)
(* SpecMask: an EQ that is masked (format 0, priority 0xFF) or not, that   *)
(* notifies unconditionally or through its ESn, that enqueues or not.      *)
(***************************************************************************)
EqMasked(priority, ucond, enq) ==
    [k \in EqKeys |->
        [EqInit(enq, 0)[k] EXCEPT !.w7 = << 0, 0, 0, priority >>,
                                  !.ucond_notify = ucond]]

MaskConfigs ==
    { EqMasked(priority, ucond, enq) :
         priority \in {4, 255}, ucond \in BOOLEAN, enq \in BOOLEAN }

InitMask == InitWith({ << XIVE_ESB_64K_2PAGE, 0 >> }, MaskConfigs, { FALSE })

NextMask ==
    \/ SetIrq(0, 1)
    \/ EsbRead(0, 1, XIVE_ESB_SET_PQ_00)
    \/ EsbWrite(0, 0, 0)
    \/ \E off \in {XIVE_ESB_LOAD_EOI, XIVE_ESB_SET_PQ_00} : EqEsbRead(0, 0, off)

SpecMask == InitMask /\ [][NextMask]_vars

(***************************************************************************)
(* SpecOs: the OS ring of CPU 0 under the notifications of the presenter   *)
(* and the special operations only: no raw store and no reset.             *)
(***************************************************************************)
InitOs == InitWith({ << XIVE_ESB_64K_2PAGE, 0 >> }, { EqInit(FALSE, 0) }, { FALSE })

OsStores == { a \in TmStores : a.off >= 2048 \/ a.size = 1 }

NextOs ==
    \/ SetIrq(0, 1)
    \/ EsbRead(0, 1, XIVE_ESB_SET_PQ_00)
    \/ \E page \in 0 .. 2 : TmRead(0, page, TM_SPC_ACK_OS_REG, 2)
    \/ \E page \in 0 .. 2, a \in OsStores : TmWrite(0, page, a.off, a.size, a.value)

SpecOs == InitOs /\ [][NextOs]_vars

(***************************************************************************)
(* SpecUser: SpecOs with the loads and stores of every size through the    *)
(* USER page of the TIMA, in the raw and in the special region.            *)
(***************************************************************************)
\* The aligned accesses of 1, 2, 4 and 8 bytes to the registers and to their
\* image in the region of the special operations: [off, size]
UserAccesses ==
    { [off |-> base + o, size |-> size] :
         base \in {0, 2048}, o \in 0 .. 63, size \in {1, 2, 4, 8} }
UserAligned == { a \in UserAccesses : a.off % a.size = 0 }
UserValue(a) == [i \in 1 .. a.size |-> 255]

NextUser ==
    \/ SetIrq(0, 1)
    \/ EsbRead(0, 1, XIVE_ESB_SET_PQ_00)
    \/ \E page \in 0 .. 2 : TmRead(0, page, TM_SPC_ACK_OS_REG, 2)
    \/ \E page \in 0 .. 2, a \in OsStores : TmWrite(0, page, a.off, a.size, a.value)
    \/ \E a \in UserAligned : TmRead(0, XIVE_TM_USER_PAGE, a.off, a.size)
    \/ \E a \in UserAligned :
           TmWrite(0, XIVE_TM_USER_PAGE, a.off, a.size, UserValue(a))

SpecUser == InitOs /\ [][NextUser]_vars

(***************************************************************************)
(* SpecPrio: the OS ring of CPU 0 under notifications and SET_OS_PENDING   *)
(* of priorities below and above 7, next to a raw store of the IPB.        *)
(***************************************************************************)
InitPrio ==
    InitWith({ << XIVE_ESB_64K_2PAGE, 0 >> },
             { EqMasked(priority, TRUE, FALSE) : priority \in {4, 9} }, { FALSE })

PrioStores ==
    { a \in TmStores : a.off = TM_SPC_SET_OS_PENDING \/ a.size = 4 }
    \cup { [off |-> TM_QW1_OS + TM_CPPR, size |-> 1, value |-> << v >>] : v \in {0, 255} }

NextPrio ==
    \/ SetIrq(0, 1)
    \/ EsbRead(0, 1, XIVE_ESB_SET_PQ_00)
    \/ \E page \in {XIVE_TM_HW_PAGE, XIVE_TM_OS_PAGE} :
           TmRead(0, page, TM_SPC_ACK_OS_REG, 2)
    \/ \E page \in {XIVE_TM_HW_PAGE, XIVE_TM_OS_PAGE}, a \in PrioStores :
           TmWrite(0, page, a.off, a.size, a.value)

SpecPrio == InitPrio /\ [][NextPrio]_vars

(***************************************************************************)
(* Properties of the event source (checked under Spec)                     *)
(***************************************************************************)
PQ(n) == xsrc.status[n] % 4
Asserted(n) == (xsrc.status[n] \div 4) % 2 = 1
Msis == Irqs \ LsiMap

\* Nothing downstream of the source changes
RouterUnchanged == UNCHANGED << ivt, eqt, vpt, mem, tctx, pushes >>

\* A step that is an ESB trigger of source n: the rising edge of an MSI line,
\* or a store to the first page of the source at offset 0
TriggerStep(n) ==
    \/ n \in Msis /\ last'.op = "set_irq" /\ last'.kind = "raise" /\ SetIrq(n, 1)
    \/ last'.op = "esb_write" /\ last'.kind = "trigger" /\ EsbWrite(n, 0, 0)

\* A step that is a load EOI or a (permitted) store EOI of source n, on the
\* management page
LoadEoiStep(n) ==
    last'.op = "esb_read" /\ last'.kind = "eoi" /\ EsbRead(n, 1, XIVE_ESB_STORE_EOI)
StoreEoiStep(n) ==
    last'.op = "esb_write" /\ last'.kind = "eoi" /\ EsbWrite(n, 1, XIVE_ESB_STORE_EOI)
EoiStep(n) == LoadEoiStep(n) \/ StoreEoiStep(n)

\* C1: an ESB trigger takes RESET to PENDING and forwards, PENDING to QUEUED,
\* QUEUED to QUEUED and OFF to OFF without forwarding; the bits of the status
\* byte above P and Q are left alone.
C1_EsbTrigger ==
    [][\A n \in Irqs :
          TriggerStep(n) =>
              /\ xsrc'.status[n] \div 4 = xsrc.status[n] \div 4
              /\ PQ(n) = XIVE_ESB_RESET =>
                     PQ(n)' = XIVE_ESB_PENDING /\ last'.notify
              /\ PQ(n) = XIVE_ESB_PENDING =>
                     PQ(n)' = XIVE_ESB_QUEUED /\ ~last'.notify
              /\ PQ(n) = XIVE_ESB_QUEUED =>
                     PQ(n)' = XIVE_ESB_QUEUED /\ ~last'.notify
              /\ PQ(n) = XIVE_ESB_OFF =>
                     PQ(n)' = XIVE_ESB_OFF /\ ~last'.notify]_vars

\* A second trigger has been coalesced: the source is QUEUED after a trigger
\* that did not forward
C1_Witness ==
    /\ last.op = "esb_write" /\ last.kind = "trigger" /\ ~last.notify
    /\ \E n \in Irqs : PQ(n) = XIVE_ESB_QUEUED

\* C2: an ESB EOI (here of a source that is not an asserted LSI) takes RESET
\* to RESET, PENDING to RESET and OFF to OFF and returns 0, and takes QUEUED to
\* PENDING and returns 1, forwarding.
C2_EsbEoi ==
    [][\A n \in Irqs :
          (LoadEoiStep(n) /\ ~(n \in LsiMap /\ Asserted(n))) =>
              /\ xsrc'.status[n] \div 4 = xsrc.status[n] \div 4
              /\ PQ(n) \in {XIVE_ESB_RESET, XIVE_ESB_PENDING} =>
                     PQ(n)' = XIVE_ESB_RESET /\ ~last'.notify /\ last'.ret = U64(0)
              /\ PQ(n) = XIVE_ESB_QUEUED =>
                     PQ(n)' = XIVE_ESB_PENDING /\ last'.notify /\ last'.ret = U64(1)
              /\ PQ(n) = XIVE_ESB_OFF =>
                     PQ(n)' = XIVE_ESB_OFF /\ ~last'.notify /\ last'.ret = U64(0)]_vars

\* An EOI has returned forward and left a source PENDING
C2_Witness ==
    /\ last.op = "esb_read" /\ last.kind = "eoi" /\ last.notify /\ last.ret = U64(1)
    /\ \E n \in Msis : PQ(n) = XIVE_ESB_PENDING

\* The queue entry of EqData with generation 0, and the bytes of guest memory
\* at the queue index the descriptor k holds
QEntry0 == << 0, 0, 171, 205 >>
QSlot(k) == eqt[k].qaddr + 4 * eqt[k].page_off

\* Exactly one entry is appended to the queue of EQ 0/0, at its queue index
OneEntryAppended ==
    LET k == << 0, 0 >>
        slot == QSlot(k) .. QSlot(k) + 3
    IN  /\ pushes' = pushes + 1
        /\ DOMAIN mem' = DOMAIN mem \cup slot
        /\ \A a \in DOMAIN mem' \ slot : mem'[a] = mem[a]
        /\ \A i \in 1 .. 4 : mem'[QSlot(k) + i - 1] = QEntry0[i]
        /\ eqt'[k].page_off = eqt[k].page_off + 1
        /\ eqt'[k].generation = eqt[k].generation

\* C3: an MSI that is PENDING or QUEUED (a trigger has forwarded and no EOI
\* has followed) is QUEUED after a further trigger, which notifies nothing and
\* writes nothing to the event queue; the load EOI of the QUEUED source leaves
\* it PENDING, returns 1, and notifies once: one entry is appended at the
\* queue index.
C3_MsiCoalescing ==
    [][\A n \in Msis :
          /\ (TriggerStep(n) /\ PQ(n) \in {XIVE_ESB_PENDING, XIVE_ESB_QUEUED}) =>
                 /\ PQ(n)' = XIVE_ESB_QUEUED
                 /\ ~last'.notify
                 /\ RouterUnchanged
          /\ (LoadEoiStep(n) /\ PQ(n) = XIVE_ESB_QUEUED) =>
                 /\ PQ(n)' = XIVE_ESB_PENDING
                 /\ last'.ret = U64(1)
                 /\ last'.notify
                 /\ OneEntryAppended]_vars

\* The EOI of a QUEUED MSI has appended the second entry to the queue
C3_Witness ==
    /\ last.op = "esb_read" /\ last.kind = "eoi" /\ last.notify
    /\ PQ(0) = XIVE_ESB_PENDING
    /\ pushes = 2
    /\ eqt[<< 0, 0 >>].page_off = 2
    /\ DOMAIN mem = 0 .. 7

\* C4: raising the line of an LSI sets ASSERTED and, exactly when the source
\* is RESET, makes it PENDING and notifies; otherwise P and Q stay and nothing
\* is notified.  Lowering the line clears ASSERTED, leaves P and Q and
\* notifies nothing.
C4_LsiSetIrq ==
    [][\A n \in LsiMap :
          /\ (last'.op = "set_irq" /\ last'.kind = "raise" /\ SetIrq(n, 1)) =>
                 /\ Asserted(n)'
                 /\ PQ(n) = XIVE_ESB_RESET =>
                        PQ(n)' = XIVE_ESB_PENDING /\ last'.notify
                 /\ PQ(n) # XIVE_ESB_RESET =>
                        PQ(n)' = PQ(n) /\ ~last'.notify /\ RouterUnchanged
          /\ (last'.op = "set_irq" /\ last'.kind = "lower" /\ SetIrq(n, 0)) =>
                 /\ ~Asserted(n)'
                 /\ PQ(n)' = PQ(n)
                 /\ ~last'.notify
                 /\ RouterUnchanged]_vars

\* The line of a RESET LSI has been raised: it is asserted, PENDING, notified
C4_Witness ==
    /\ last.op = "set_irq" /\ last.kind = "raise" /\ last.notify
    /\ \E n \in LsiMap : Asserted(n) /\ PQ(n) = XIVE_ESB_PENDING

\* C5 as the specification states it: the EOI of an asserted LSI leaves it PENDING and forwards
C5_Original ==
    [][\A n \in LsiMap :
          (EoiStep(n) /\ Asserted(n)) =>
              PQ(n)' = XIVE_ESB_PENDING /\ last'.notify]_vars

\* C5: the EOI of an asserted LSI that is RESET or PENDING leaves it PENDING
\* and forwards; of one that is QUEUED, leaves it PENDING without forwarding;
\* of one that is OFF, leaves it OFF without forwarding.
C5_LsiEoiAsserted ==
    [][\A n \in LsiMap :
          (EoiStep(n) /\ Asserted(n)) =>
              /\ Asserted(n)'
              /\ PQ(n) \in {XIVE_ESB_RESET, XIVE_ESB_PENDING} =>
                     PQ(n)' = XIVE_ESB_PENDING /\ last'.notify
              /\ PQ(n) = XIVE_ESB_QUEUED =>
                     PQ(n)' = XIVE_ESB_PENDING /\ ~last'.notify
              /\ PQ(n) = XIVE_ESB_OFF =>
                     PQ(n)' = XIVE_ESB_OFF /\ ~last'.notify]_vars

\* The EOI of an asserted LSI has forwarded again and a second entry is queued
C5_Witness ==
    /\ last.kind = "eoi" /\ last.notify
    /\ \E n \in LsiMap : Asserted(n) /\ PQ(n) = XIVE_ESB_PENDING
    /\ pushes = 2

\* C6: an EOI of an asserted LSI that returns forward leaves it PENDING
C6_LsiForwardIsPending ==
    [][\A n \in LsiMap :
          (EoiStep(n) /\ Asserted(n) /\ last'.notify) =>
              PQ(n)' = XIVE_ESB_PENDING /\ Asserted(n)']_vars

\* A store EOI of an asserted LSI has forwarded and left it PENDING
C6_Witness ==
    /\ last.op = "esb_write" /\ last.kind = "eoi" /\ last.notify
    /\ \E n \in LsiMap : Asserted(n) /\ PQ(n) = XIVE_ESB_PENDING

(***************************************************************************)
(* Properties of the thread context (checked under SpecTctx)               *)
(***************************************************************************)
\* Register r of the OS ring of CPU c, and of any ring
OsReg(c, r) == tctx[c].regs[TM_QW1_OS + r]
RingReg(c, ring, r) == tctx[c].regs[ring + r]
OsEO(c) == OsReg(c, TM_NSR) \div 128 = 1
OsRaised(c) == OsEO(c) /\ tctx[c].output
Rings == {TM_QW0_USER, TM_QW1_OS, TM_QW2_HV_POOL, TM_QW3_HV_PHYS}

\* The registers of CPU c other than those of the set keep their value
OtherRegsUnchanged(c, set) ==
    \A r \in 0 .. 63 : r \notin set => tctx'[c].regs[r] = tctx[c].regs[r]

\* Steps of CPU c: a store that is the special operation kind, the load that
\* is ACK_OS_REG, and a notification of the presenter, which IRQ 0 sends to
\* the OS ring of CPU 0
OthersUnchanged(c) == \A d \in Cpus \ {c} : tctx'[d] = tctx[d]
SpecialStore(c, kind) ==
    /\ last'.op = "tm_write" /\ last'.kind = kind
    /\ OthersUnchanged(c)
    /\ \E page \in 0 .. 3, a \in TmStores : TmWrite(c, page, a.off, a.size, a.value)
AckOsReg(c) ==
    /\ last'.op = "tm_read" /\ last'.kind = "ack_os_reg"
    /\ OthersUnchanged(c)
    /\ \E page \in 0 .. 3 : TmRead(c, page, TM_SPC_ACK_OS_REG, 2)
PresenterNotifies(c) ==
    /\ c = 0
    /\ last'.op = "set_irq" /\ last'.notify
    /\ SetIrq(0, 1)
Recheck(c) ==
    \/ SpecialStore(c, "set_os_cppr")
    \/ SpecialStore(c, "set_os_pending")
    \/ PresenterNotifies(c)

C8_Original ==
    \A c \in Cpus, ring \in Rings :
        RingReg(c, ring, TM_PIPR) = ipb_to_pipr(RingReg(c, ring, TM_IPB))

OsPiprOfIpb(c) == OsReg(c, TM_PIPR) = ipb_to_pipr(OsReg(c, TM_IPB))
RawStore == last'.op = "tm_write" /\ last'.kind = "raw"

\* C8: PIPR is ipb_to_pipr(IPB) in the OS ring after reset; SET_OS_PENDING, a
\* notification of the presenter and a reset make it so, and every step but a
\* raw store to the TIMA keeps it so.
C8_OsPiprFromIpb ==
    /\ \A c \in Cpus : OsPiprOfIpb(c)
    /\ [][\A c \in Cpus :
             /\ (SpecialStore(c, "set_os_pending") \/ PresenterNotifies(c)
                     \/ (last'.op = "tctx_reset" /\ TctxReset(c))) => OsPiprOfIpb(c)'
             /\ (~RawStore /\ OsPiprOfIpb(c)) => OsPiprOfIpb(c)']_vars

\* The presenter has made priority 4 pending in an OS ring that had priority
\* 6 pending
C8_Witness ==
    /\ last.op = "set_irq" /\ last.notify
    /\ OsReg(0, TM_IPB) = 10
    /\ OsReg(0, TM_PIPR) = 4

\* The OS ring of CPU c is as a notification of priority p leaves an empty ring
NotifiedOnEmpty(c, p) ==
    /\ (last.op = "set_irq" /\ last.notify) \/ last.kind = "set_os_pending"
    /\ OsReg(c, TM_IPB) = 2 ^ (7 - p)
    /\ OsReg(c, TM_PIPR) = p

\* What ACK_OS_REG does in every case
AckEffect(c) ==
    /\ ~tctx'[c].output
    /\ OsEO(c) =>
           /\ OsReg(c, TM_CPPR)' = OsReg(c, TM_PIPR)
           /\ OsReg(c, TM_IPB)' =
                  BitClear(OsReg(c, TM_IPB), priority_to_ipb(OsReg(c, TM_PIPR)))
           /\ OsReg(c, TM_PIPR)' = ipb_to_pipr(OsReg(c, TM_IPB)')
           /\ OsReg(c, TM_NSR)' = OsReg(c, TM_NSR) - 128
           /\ OtherRegsUnchanged(c, {TM_QW1_OS + TM_NSR, TM_QW1_OS + TM_CPPR,
                                     TM_QW1_OS + TM_IPB, TM_QW1_OS + TM_PIPR})
    /\ ~OsEO(c) => tctx'[c].regs = tctx[c].regs
    /\ last'.ret = U64(OsReg(c, TM_NSR) * 256 + OsReg(c, TM_CPPR)')

AcceptedOnEmpty(c, p) ==
    /\ OsReg(c, TM_CPPR)' = p
    /\ OsReg(c, TM_IPB)' = 0
    /\ ~OsEO(c)'
    /\ ~tctx'[c].output

\* C9 as the specification states it: ACK_OS_REG after any notification of priority p on an empty
\* ring gives CPPR = p
C9_Original ==
    [][\A c \in Cpus :
          AckOsReg(c) =>
              /\ AckEffect(c)
              /\ \A p \in 0 .. 7 : NotifiedOnEmpty(c, p) => AcceptedOnEmpty(c, p)]_vars

\* C9: ACK_OS_REG lowers the line; with NSR.EO set it makes CPPR the PIPR,
\* clears the IPB bit of that priority, recomputes PIPR and clears NSR.EO;
\* without, it changes no register; it returns (NSR on entry << 8) | CPPR
\* after.  After a notification of priority p on an empty ring that has raised
\* the exception, it gives CPPR = p, no bit in the IPB, NSR.EO clear, line low.
C9_AckOsReg ==
    [][\A c \in Cpus :
          AckOsReg(c) =>
              /\ AckEffect(c)
              /\ \A p \in 0 .. 7 :
                     (NotifiedOnEmpty(c, p) /\ OsEO(c)) => AcceptedOnEmpty(c, p)]_vars

\* The notification of priority 4 of the presenter has been accepted
C9_Witness ==
    /\ last.op = "tm_read" /\ last.kind = "ack_os_reg"
    /\ last.ret = << 0, 0, 0, 0, 0, 0, 128, 4 >>
    /\ OsReg(0, TM_CPPR) = 4
    /\ OsReg(0, TM_IPB) = 0
    /\ OsReg(0, TM_NSR) = 0
    /\ ~tctx[0].output

\* The store of SET_OS_CPPR by CPU c, of the byte a.value
SetOsCppr(c, a) ==
    /\ a.off = TM_QW1_OS + TM_CPPR
    /\ a.size = 1
    /\ last'.op = "tm_write" /\ last'.kind = "set_os_cppr"
    /\ OthersUnchanged(c)
    /\ \E page \in 0 .. 3 : TmWrite(c, page, a.off, a.size, a.value)

\* The re-check of SET_OS_CPPR, and the example: IPB = 0x40, CPPR = 0, store
\* of 2, then ACK_OS_REG
SetOsCpprRecheck(c) ==
    /\ OtherRegsUnchanged(c, {TM_QW1_OS + TM_NSR, TM_QW1_OS + TM_CPPR})
    /\ OsReg(c, TM_PIPR) < OsReg(c, TM_CPPR)' => OsRaised(c)'
SetOsCpprExample(c) ==
    /\ (/\ SetOsCppr(c, [off |-> TM_QW1_OS + TM_CPPR, size |-> 1, value |-> << 2 >>])
        /\ OsReg(c, TM_IPB) = 64 /\ OsReg(c, TM_PIPR) = 1 /\ OsReg(c, TM_CPPR) = 0)
           => OsRaised(c)' /\ OsReg(c, TM_CPPR)' = 2
    /\ (/\ AckOsReg(c)
        /\ last.kind = "set_os_cppr"
        /\ OsReg(c, TM_IPB) = 64 /\ OsReg(c, TM_PIPR) = 1 /\ OsReg(c, TM_CPPR) = 2
        /\ OsRaised(c))
           => /\ last'.ret = << 0, 0, 0, 0, 0, 0, 128, 1 >>
              /\ OsReg(c, TM_IPB)' = 0
              /\ OsReg(c, TM_PIPR)' = 255
              /\ ~tctx'[c].output

\* C10 as the specification states it: SET_OS_CPPR makes CPPR the stored value
C10_Original ==
    [][\A c \in Cpus :
          /\ \A a \in TmStores :
                 SetOsCppr(c, a) =>
                     OsReg(c, TM_CPPR)' = a.value[1] /\ SetOsCpprRecheck(c)
          /\ SetOsCpprExample(c)]_vars

\* C10: SET_OS_CPPR makes CPPR the stored value if that is at most 7 and 0xFF
\* if it is more, then re-checks: with PIPR < CPPR it sets NSR.EO and asserts
\* the line.  With IPB = 0x40 and CPPR = 0, the store of 2 raises the
\* exception, and the ACK_OS_REG that follows returns 0x8001 and leaves
\* IPB = 0, PIPR = 0xFF and the line low.
C10_SetOsCppr ==
    [][\A c \in Cpus :
          /\ \A a \in TmStores :
                 SetOsCppr(c, a) =>
                     /\ OsReg(c, TM_CPPR)' = IF a.value[1] > 7 THEN 255 ELSE a.value[1]
                     /\ SetOsCpprRecheck(c)
          /\ SetOsCpprExample(c)]_vars

\* The store of 2 to the CPPR has raised the exception of priority 1
C10_Witness ==
    /\ last.op = "tm_write" /\ last.kind = "set_os_cppr"
    /\ OsReg(0, TM_CPPR) = 2
    /\ OsReg(0, TM_IPB) = 64
    /\ OsReg(0, TM_PIPR) = 1
    /\ OsRaised(0)

\* The store of SET_OS_PENDING by CPU c, of the byte a.value
SetOsPending(c, a) ==
    /\ a.off = TM_SPC_SET_OS_PENDING
    /\ a.size = 1
    /\ last'.op = "tm_write" /\ last'.kind = "set_os_pending"
    /\ OthersUnchanged(c)
    /\ \E page \in 0 .. 3 : TmWrite(c, page, a.off, a.size, a.value)

\* The bit 1 << (7 - value) of a byte: none when value is more than 7
PriorityBit(value) == IF value <= 7 THEN 2 ^ (7 - value) ELSE 0

\* The lowest-numbered priority with its bit set in ipb, 0xFF when none has
LowestPriority(ipb) ==
    IF ipb = 0 THEN 255
    ELSE CHOOSE p \in 0 .. 7 :
             /\ (ipb \div (2 ^ (7 - p))) % 2 = 1
             /\ \A q \in 0 .. p - 1 : (ipb \div (2 ^ (7 - q))) % 2 = 0

\* C11: SET_OS_PENDING ORs the bit 1 << (7 - value) into the IPB of the OS
\* ring, makes PIPR the most favoured priority of the new IPB, and sets
\* NSR.EO and asserts the line if PIPR < CPPR; of the registers only IPB, PIPR
\* and NSR of the OS ring may change, and NSR and the line do not change
\* unless PIPR < CPPR.
C11_SetOsPending ==
    [][\A c \in Cpus, a \in TmStores :
          SetOsPending(c, a) =>
              /\ OsReg(c, TM_IPB)' = BitOr(OsReg(c, TM_IPB), PriorityBit(a.value[1]))
              /\ OsReg(c, TM_PIPR)' = LowestPriority(OsReg(c, TM_IPB)')
              /\ OsReg(c, TM_PIPR)' < OsReg(c, TM_CPPR) => OsRaised(c)'
              /\ ~(OsReg(c, TM_PIPR)' < OsReg(c, TM_CPPR)) =>
                     /\ OsReg(c, TM_NSR)' = OsReg(c, TM_NSR)
                     /\ tctx'[c].output = tctx[c].output
              /\ OtherRegsUnchanged(c, {TM_QW1_OS + TM_NSR, TM_QW1_OS + TM_IPB,
                                        TM_QW1_OS + TM_PIPR})
              /\ OsReg(c, TM_NSR)' \in {OsReg(c, TM_NSR),
                                        BitOr(OsReg(c, TM_NSR), TM_QW1_NSR_EO)}]_vars

\* SET_OS_PENDING of priority 6 has raised the exception in a ring that had
\* nothing pending
C11_Witness ==
    /\ last.op = "tm_write" /\ last.kind = "set_os_pending"
    /\ OsReg(0, TM_IPB) = 2
    /\ OsReg(0, TM_PIPR) = 6
    /\ OsReg(0, TM_CPPR) = 255
    /\ OsRaised(0)

(***************************************************************************)
(* Properties of the event queue (checked under SpecEq)                    *)
(***************************************************************************)
\* The EQ both sources are routed to, and whether a write of one entry at its
\* queue index lies in RAM
Eq00 == << 0, 0 >>
DmaOk == QSlot(Eq00) + 4 <= RamSize

\* A step in which the source forwards a notification, which the router
\* turns into the EQ trigger of EQ 0/0
EqNotifyStep == last'.notify

\* C12: a notification of a valid EQ with ENQUEUE, whose DMA write succeeds,
\* writes the 4 bytes of (gen << 31) | (data & 0x7fffffff), most significant
\* first, at qaddr + 4 * qindex, with the qindex and generation the descriptor
\* had before, writes nothing else, and stores the descriptor with its new
\* queue index (and generation) back.
C12_EqPushWord ==
    [][(/\ EqNotifyStep
        /\ eqt[Eq00].valid /\ eqt[Eq00].enqueue /\ DmaOk) =>
          LET a == QSlot(Eq00)
          IN  /\ a = eqt[Eq00].qaddr + 4 * eqt[Eq00].page_off
              /\ DOMAIN mem' = DOMAIN mem \cup (a .. a + 3)
              /\ \A b \in DOMAIN mem : b \notin a .. a + 3 => mem'[b] = mem[b]
              /\ << mem'[a], mem'[a + 1], mem'[a + 2], mem'[a + 3] >>
                     = << 128 * eqt[Eq00].generation + (EqData[1] % 128),
                          EqData[2], EqData[3], EqData[4] >>
              /\ pushes' = pushes + 1
              /\ eqt'[Eq00].page_off = (eqt[Eq00].page_off + 1) % QEntries
              /\ \A k \in EqKeys \ {Eq00} : eqt'[k] = eqt[k]]_vars

\* The first entry of a queue of generation 1 has been written: 0x8000ABCD
C12_Witness ==
    /\ last.notify
    /\ pushes = 1
    /\ eq0[Eq00].page_off = 0 /\ eq0[Eq00].generation = 1
    /\ DOMAIN mem = 0 .. 3
    /\ << mem[0], mem[1], mem[2], mem[3] >> = << 128, 0, 171, 205 >>
    /\ eqt[Eq00].page_off = 1

\* The number of pushes since the queue index was 0
PushesSince0 == eq0[Eq00].page_off + pushes

\* C13: with K the number of pushes since the queue index was 0, the queue
\* index is K mod N and the generation ((K / N) mod 2) XOR the generation at
\* the start; the generation changes only in the push that takes the index
\* from N - 1 to 0.  The push at index 1023 of generation 0 writes at
\* qaddr + 4092 without bit 31 and leaves index 0, generation 1; the push at
\* index 0 of generation 1 writes at qaddr + 0 with bit 31 set.
C13_QueueIndexAndGeneration ==
    /\ [](/\ eqt[Eq00].page_off = PushesSince0 % QEntries
          /\ eqt[Eq00].generation
                 = (((PushesSince0 \div QEntries) % 2) + eq0[Eq00].generation) % 2)
    /\ [][/\ eqt'[Eq00].generation # eqt[Eq00].generation =>
                 /\ pushes' = pushes + 1
                 /\ eqt[Eq00].page_off = QEntries - 1
                 /\ eqt'[Eq00].page_off = 0
          /\ (/\ pushes' = pushes + 1
              /\ eqt[Eq00].page_off = 1023 /\ eqt[Eq00].generation = 0) =>
                 /\ mem'[eqt[Eq00].qaddr + 4092] < 128
                 /\ eqt'[Eq00].page_off = 0
                 /\ eqt'[Eq00].generation = 1
          /\ (/\ pushes' = pushes + 1
              /\ eqt[Eq00].page_off = 0 /\ eqt[Eq00].generation = 1) =>
                 mem'[eqt[Eq00].qaddr] >= 128]_vars

\* The queue has wrapped: after the push at index 1023 of generation 0 the
\* next has written at index 0 with bit 31 set
C13_Witness ==
    /\ eq0[Eq00].page_off = 1023 /\ eq0[Eq00].generation = 0
    /\ pushes = 2
    /\ eqt[Eq00].page_off = 1 /\ eqt[Eq00].generation = 1
    /\ mem[4092] = 0 /\ mem[0] = 128

\* C14 as the specification states it: a notification whose DMA write fails
\* is dropped: no EQ descriptor, thread context or VP descriptor changes
C14_Original ==
    [][(/\ EqNotifyStep
        /\ eqt[Eq00].valid /\ eqt[Eq00].enqueue /\ ~DmaOk) =>
          /\ eqt' = eqt
          /\ tctx' = tctx
          /\ vpt' = vpt]_vars

(***************************************************************************)
(* Properties of the presenter (checked under SpecPres)                    *)
(***************************************************************************)
\* What EQ 0/0 sends to the presenter: the target VP, the format, the
\* priority and the cam_ignore bit
PresEq == eqt[Eq00]
PresVp == << PresEq.nvt_blk, PresEq.nvt_idx >>
PresPriority == EQ_W7_F0_PRIORITY(PresEq.w7)
LogicalServer == PresEq.format = 0 /\ EQ_W7_F0_IGNORE(PresEq.w7)

\* The rings the format has the presenter try, in their order
TriedRings ==
    IF PresEq.format = 0
    THEN << TM_QW3_HV_PHYS, TM_QW2_HV_POOL, TM_QW1_OS >>
    ELSE << TM_QW0_USER >>

\* Ring i of TriedRings of CPU c matches the target VP; CPU c has a matching
\* ring; its first matching ring
TriedMatches(c, i) ==
    xive_tctx_ring_match(tctx[c], TriedRings[i], PresEq.nvt_blk, PresEq.nvt_idx,
                         FALSE, EQ_W7_F1_LOG_SERVER_ID(PresEq.w7))
Matching(c) == \E i \in DOMAIN TriedRings : TriedMatches(c, i)
FirstRing(c) ==
    TriedRings[CHOOSE i \in DOMAIN TriedRings :
                   TriedMatches(c, i) /\ \A j \in 1 .. i - 1 : ~TriedMatches(c, j)]

\* The step in which the source notifies and EQ 0/0 passes it to the presenter
PresenterStep ==
    /\ last'.op = "set_irq" /\ last'.notify
    /\ vpt[PresVp].valid
    /\ SetIrq(0, 1)

\* C15 as the specification states it: when exactly one thread context
\* matches, the IPB of its first matching ring takes the priority bit, the PIPR
\* of the ring is recomputed, NSR.EO is set and the line raised if PIPR < CPPR,
\* and no other context and no VP changes
C15_Original ==
    [][\A c \in Cpus :
          (/\ PresenterStep
           /\ ~LogicalServer
           /\ Matching(c)
           /\ \A d \in Cpus \ {c} : ~Matching(d)) =>
             LET ring == FirstRing(c)
                 ipb  == BitOr(RingReg(c, ring, TM_IPB), PriorityBit(PresPriority))
             IN  /\ RingReg(c, ring, TM_IPB)' = ipb
                 /\ RingReg(c, ring, TM_PIPR)' = LowestPriority(ipb)
                 /\ LowestPriority(ipb) < RingReg(c, ring, TM_CPPR) =>
                       /\ RingReg(c, ring, TM_NSR)' \div 128 = 1
                       /\ tctx'[c].output
                       /\ ~tctx'[c].fatal
                 /\ OthersUnchanged(c)
                 /\ vpt' = vpt]_vars

C17_Original ==
    [][(/\ PresenterStep
        /\ \/ LogicalServer
           \/ \E c, d \in Cpus : c # d /\ Matching(c) /\ Matching(d)) =>
          /\ tctx' = tctx
          /\ vpt' = vpt]_vars

(***************************************************************************)
(* Properties of the router (checked under SpecIve)                        *)
(***************************************************************************)
\* The step in which source n notifies the router of its LISN
RouterNotifyStep(n) ==
    /\ last'.notify
    /\ \/ \E val \in {0, 1} : SetIrq(n, val)
       \/ \E off \in {XIVE_ESB_LOAD_EOI, XIVE_ESB_SET_PQ_00} : EsbRead(n, 1, off)
       \/ EsbWrite(n, 0, 0)

\* The router has no IVE for the LISN, or one that is not valid or is masked
IveDrops(lisn) ==
    \/ lisn \notin DOMAIN ivt
    \/ ~ivt[lisn].valid
    \/ ivt[lisn].masked

\* C18: a notification of a LISN whose IVE is absent, not valid or masked
\* changes no EQ descriptor, no byte of queue memory, no VP descriptor and no
\* thread context (registers and output line)
C18_IveDrops ==
    [][\A n \in Irqs :
          (RouterNotifyStep(n) /\ IveDrops(n)) =>
             /\ eqt' = eqt
             /\ mem' = mem
             /\ pushes' = pushes
             /\ vpt' = vpt
             /\ tctx' = tctx]_vars

\* No source has an IVE that routes, a source has notified, and nothing is in
\* the queue or pending in a thread context
C18_Witness ==
    /\ last.notify
    /\ \A n \in Irqs : IveDrops(n)
    /\ \E n \in Irqs : n \in DOMAIN ivt /\ ivt[n].valid /\ ivt[n].masked
    /\ \E n \in Irqs : PQ(n) = XIVE_ESB_PENDING
    /\ pushes = 0
    /\ \A c \in Cpus : OsReg(c, TM_IPB) = 0

(***************************************************************************)
(* Properties of the ESB access discipline (checked under Spec)            *)
(***************************************************************************)
\* C19: when the source has two pages per interrupt, a load at any offset of
\* the trigger page of a source returns -1 (all ones), leaves the PQ bits and
\* the ASSERTED bit of that source and of every other as they were, and
\* notifies nothing
C19_TriggerPageLoad ==
    [][\A n \in Irqs :
          (/\ last'.op = "esb_read"
           /\ xive_source_esb_has_2page(xsrc)
           /\ \E off \in EsbOffsets : EsbRead(n, 0, off)) =>
             /\ last'.ret = MinusOne
             /\ PQ(n)' = PQ(n)
             /\ Asserted(n)' = Asserted(n)
             /\ xsrc' = xsrc
             /\ ~last'.notify
             /\ RouterUnchanged]_vars

\* A load from the trigger page has returned -1 while the LSI is asserted and
\* both sources are pending, which a load from the management page at the
\* same offsets would have changed or reported
C19_Witness ==
    /\ xive_source_esb_has_2page(xsrc)
    /\ last.op = "esb_read" /\ last.kind = "invalid" /\ last.ret = MinusOne
    /\ \A n \in Irqs : PQ(n) = XIVE_ESB_PENDING
    /\ \E n \in Irqs : Asserted(n)

\* The offsets of EsbOffsets in the Store EOI range 0x400 - 0x7FF
StoreEoiOffsets ==
    { off \in EsbOffsets :
          off >= XIVE_ESB_STORE_EOI /\ off <= XIVE_ESB_STORE_EOI + 1023 }

\* C20: when the flags of the source lack STORE_EOI, a store in the range
\* 0x400 - 0x7FF of a page that is not a trigger page (the one page of a
\* source, or the second of its two) changes no ESB state and notifies
\* nothing
C20_StoreEoiDisabled ==
    [][\A n \in Irqs :
          (/\ last'.op = "esb_write"
           /\ BitAnd(xsrc.esb_flags, XIVE_SRC_STORE_EOI) = 0
           /\ \E off \in StoreEoiOffsets :
                 EsbWrite(n, IF xive_source_esb_has_2page(xsrc) THEN 1 ELSE 0, off)) =>
             /\ PQ(n)' = PQ(n)
             /\ Asserted(n)' = Asserted(n)
             /\ xsrc' = xsrc
             /\ ~last'.notify
             /\ RouterUnchanged]_vars

\* A Store EOI has been refused while the MSI is queued and the LSI pending
\* and asserted: performed, it would have forwarded a notification
C20_Witness ==
    /\ BitAnd(xsrc.esb_flags, XIVE_SRC_STORE_EOI) = 0
    /\ last.op = "esb_write" /\ last.kind = "invalid_store_eoi"
    /\ \E n \in Irqs : PQ(n) = XIVE_ESB_QUEUED
    /\ \E n \in Irqs : PQ(n) = XIVE_ESB_PENDING /\ Asserted(n)

(***************************************************************************)
(* Properties of the ESB offsets (checked under SpecEsb)                   *)
(***************************************************************************)
\* The page of a source that is not a trigger page: its one page, or the
\* second of its two
MgmtHalf == IF xive_source_esb_has_2page(xsrc) THEN 1 ELSE 0

\* What an EOI of source n comes to: the PQ bits it leaves and whether it
\* forwards
EoiResult(n) ==
    LET pq  == IF PQ(n) = XIVE_ESB_PENDING THEN XIVE_ESB_RESET
               ELSE IF PQ(n) = XIVE_ESB_QUEUED THEN XIVE_ESB_PENDING
               ELSE PQ(n)
    IN  IF n \in LsiMap /\ Asserted(n)
        THEN IF pq = XIVE_ESB_RESET
             THEN [pq |-> XIVE_ESB_PENDING, fwd |-> TRUE]
             ELSE [pq |-> pq, fwd |-> FALSE]
        ELSE [pq |-> pq, fwd |-> PQ(n) = XIVE_ESB_QUEUED]

\* The sources other than n keep their ESB byte
OtherSourcesUnchanged(n) ==
    \A m \in Irqs \ {n} : xsrc'.status[m] = xsrc.status[m]

\* C21 as the specification states it: a load below 0x400 is invalid on every
\* page: it returns -1, changes no ESB state and notifies nothing
C21_Original ==
    [][\A n \in Irqs :
          (/\ last'.op = "esb_read"
           /\ \E half \in EsbHalves, off \in LowLoads : EsbRead(n, half, off)) =>
             /\ last'.ret = MinusOne
             /\ xsrc' = xsrc
             /\ ~last'.notify]_vars

\* C21: a load below 0x400 of a page of source n that is not a trigger page
\* is a load EOI: it performs the EOI of the source, returns 1 if the EOI
\* forwards and 0 if not, and notifies the router exactly when it forwards
C21_LowLoadIsEoi ==
    [][\A n \in Irqs :
          (/\ last'.op = "esb_read"
           /\ \E off \in LowLoads : EsbRead(n, MgmtHalf, off)) =>
             /\ PQ(n)' = EoiResult(n).pq
             /\ Asserted(n)' = Asserted(n)
             /\ OtherSourcesUnchanged(n)
             /\ last'.ret = U64(IF EoiResult(n).fwd THEN 1 ELSE 0)
             /\ last'.notify = EoiResult(n).fwd]_vars

\* A load below 0x400 has performed the EOI of a queued MSI: it has returned 1
\* and forwarded, and the MSI is pending
C21_Witness ==
    /\ last.op = "esb_read" /\ last.kind = "eoi"
    /\ last.ret = U64(1) /\ last.notify
    /\ \E n \in Msis : PQ(n) = XIVE_ESB_PENDING
    /\ \A n \in LsiMap : PQ(n) = XIVE_ESB_OFF

\* What a trigger of source n comes to: the PQ bits it leaves and whether it
\* forwards
TriggerResult(n) ==
    [pq  |-> IF PQ(n) = XIVE_ESB_RESET THEN XIVE_ESB_PENDING
             ELSE IF PQ(n) = XIVE_ESB_PENDING THEN XIVE_ESB_QUEUED
             ELSE PQ(n),
     fwd |-> PQ(n) = XIVE_ESB_RESET]

\* The step is a store in 0x400 - 0x7FF of page half of source n
EoiRangeStore(n, half) ==
    /\ last'.op = "esb_write"
    /\ \E off \in EoiStores : EsbWrite(n, half, off)

\* The step does to source n, and to no other, what r says
SourceEffect(n, r) ==
    /\ PQ(n)' = r.pq
    /\ Asserted(n)' = Asserted(n)
    /\ OtherSourcesUnchanged(n)
    /\ last'.notify = r.fwd

\* C22 as the specification states it: a store in 0x400 - 0x7FF triggers when
\* the source has one page, and performs an EOI on the management page of a
\* source of two pages
C22_Original ==
    [][\A n \in Irqs :
          /\ (~xive_source_esb_has_2page(xsrc) /\ EoiRangeStore(n, 0)) =>
                SourceEffect(n, TriggerResult(n))
          /\ (xive_source_esb_has_2page(xsrc) /\ EoiRangeStore(n, 1)) =>
                SourceEffect(n, EoiResult(n))]_vars

\* C22: a store in 0x400 - 0x7FF triggers only on the trigger page of a source
\* of two pages.  On a page that is not a trigger page, the one page of a
\* source included, it performs an EOI if the flags of the source have
\* STORE_EOI, and nothing if they have not
C22_StoreEoiRange ==
    [][\A n \in Irqs :
          /\ (xive_source_esb_has_2page(xsrc) /\ EoiRangeStore(n, 0)) =>
                SourceEffect(n, TriggerResult(n))
          /\ (/\ BitAnd(xsrc.esb_flags, XIVE_SRC_STORE_EOI) # 0
              /\ EoiRangeStore(n, MgmtHalf)) =>
                SourceEffect(n, EoiResult(n))
          /\ (/\ BitAnd(xsrc.esb_flags, XIVE_SRC_STORE_EOI) = 0
              /\ EoiRangeStore(n, MgmtHalf)) =>
                xsrc' = xsrc /\ ~last'.notify]_vars

\* A store in 0x400 - 0x7FF of the one page of a source has performed the EOI
\* of a queued MSI: it has forwarded and the MSI is pending, where a trigger
\* would have left it queued
C22_Witness ==
    /\ ~xive_source_esb_has_2page(xsrc)
    /\ last.op = "esb_write" /\ last.kind = "eoi" /\ last.notify
    /\ \E n \in Msis : PQ(n) = XIVE_ESB_PENDING
    /\ \A n \in LsiMap : PQ(n) = XIVE_ESB_OFF

(***************************************************************************)
(* Properties of set_pq (checked under Spec)                               *)
(***************************************************************************)
\* The step is the load, or the store, at the offset of SET_PQ_v of a page of
\* source n that is not a trigger page
SetPqLoad(n, v) ==
    /\ last'.op = "esb_read" /\ last'.kind = "set_pq"
    /\ EsbRead(n, MgmtHalf, XIVE_ESB_SET_PQ_00 + 256 * v)
SetPqStore(n, v) ==
    /\ last'.op = "esb_write" /\ last'.kind = "set_pq"
    /\ EsbWrite(n, MgmtHalf, XIVE_ESB_SET_PQ_00 + 256 * v)

\* C23: set_pq(v), by a load or a store in 0xC00 - 0xFFF, makes the two low
\* bits of the ESB byte of the source v and leaves its other bits, the
\* ASSERTED flag among them, and the other sources as they were; the load
\* returns the two bits as they were before; neither ever notifies
C23_SetPq ==
    [][\A n \in Irqs, v \in 0 .. 3 :
          /\ (SetPqLoad(n, v) \/ SetPqStore(n, v)) =>
                /\ PQ(n)' = v
                /\ xsrc'.status[n] \div 4 = xsrc.status[n] \div 4
                /\ Asserted(n)' = Asserted(n)
                /\ OtherSourcesUnchanged(n)
                /\ ~last'.notify
                /\ RouterUnchanged
          /\ SetPqLoad(n, v) => last'.ret = U64(PQ(n))]_vars

\* A load of SET_PQ_00 has returned QUEUED (3) and left an asserted LSI in
\* RESET, and nothing has been queued for it
C23_Witness ==
    /\ last.op = "esb_read" /\ last.kind = "set_pq"
    /\ last.ret = U64(XIVE_ESB_QUEUED) /\ ~last.notify
    /\ \E n \in LsiMap : Asserted(n) /\ PQ(n) = XIVE_ESB_RESET
    /\ \A n \in Msis : PQ(n) = XIVE_ESB_OFF
    /\ pushes = 0

(***************************************************************************)
(* Properties of the raw region of the TIMA (checked under SpecTctx)       *)
(***************************************************************************)
\* The registers a store a addresses
Addressed(a) == { r \in 0 .. 63 : r >= (a.off % 64) /\ r < (a.off % 64) + a.size }

\* The stores of TmStores to the raw region: bit 0x800 of the offset is clear
RawStores == { a \in TmStores : (a.off \div 2048) % 2 = 0 }

\* The step is the store a of CPU c through the page
StoreStep(c, page, a) ==
    /\ OthersUnchanged(c)
    /\ TmWrite(c, page, a.off, a.size, a.value)

\* The store changes only registers it addresses, each to the byte stored or
\* not at all, and neither sets NSR.EO (unless it stores it) nor changes the
\* output line
NoSideEffect(c, a) ==
    /\ OtherRegsUnchanged(c, Addressed(a))
    /\ \A r \in Addressed(a) :
          tctx'[c].regs[r] \in {tctx[c].regs[r], a.value[r - (a.off % 64) + 1]}
    /\ (OsEO(c)' /\ ~OsEO(c)) => (TM_QW1_OS + TM_NSR) \in Addressed(a)
    /\ tctx'[c].output = tctx[c].output

\* Store a through the page is the one of the raw region that a special
\* operation is registered for: one byte to the CPPR of the OS ring through
\* the OS page or a more privileged one
IsSetOsCppr(page, a) ==
    a.off = TM_QW1_OS + TM_CPPR /\ a.size = 1 /\ page <= XIVE_TM_OS_PAGE

SpecialStores ==
    { a \in TmStores :
         a.size = 1 /\ a.off \in {TM_QW1_OS + TM_CPPR, TM_SPC_SET_OS_PENDING} }
HandlerOf(a) ==
    IF a.off = TM_SPC_SET_OS_PENDING THEN "set_os_pending" ELSE "set_os_cppr"

\* What the handler of store a does to the register it is named after
HandlerEffect(a) ==
    IF a.off = TM_SPC_SET_OS_PENDING
    THEN OsReg(0, TM_IPB)' = BitOr(OsReg(0, TM_IPB), PriorityBit(a.value[1]))
    ELSE OsReg(0, TM_CPPR)' = IF a.value[1] > 7 THEN 255 ELSE a.value[1]

\* C26 as the specification states it: the handlers of the OS page also run
\* when their offset is accessed through the less privileged USER page
C26_Original ==
    [][/\ (last'.op = "tm_write") =>
             \A a \in SpecialStores :
                TmWrite(0, XIVE_TM_USER_PAGE, a.off, a.size, a.value) =>
                   last'.kind = HandlerOf(a) /\ HandlerEffect(a)
       /\ (last'.op = "tm_read"
               /\ TmRead(0, XIVE_TM_USER_PAGE, TM_SPC_ACK_OS_REG, 2)) =>
             last'.kind = "ack_os_reg"]_vars

\* C26: the handlers of the OS page run when their offset is accessed, with
\* their size and direction, through the OS page or a more privileged one
\* (HV, HW).  Through the less privileged USER page they do not run: the
\* store changes nothing and the load returns -1 and changes nothing
C26_PrivilegedPages ==
    [][/\ (last'.op = "tm_write") =>
             \A page \in 0 .. 3, a \in SpecialStores :
                TmWrite(0, page, a.off, a.size, a.value) =>
                   IF page <= XIVE_TM_OS_PAGE
                   THEN last'.kind = HandlerOf(a) /\ HandlerEffect(a)
                   ELSE last'.kind \in {"raw", "invalid"} /\ tctx' = tctx
       /\ (last'.op = "tm_read") =>
             \A page \in 0 .. 3 :
                TmRead(0, page, TM_SPC_ACK_OS_REG, 2) =>
                   IF page <= XIVE_TM_OS_PAGE
                   THEN /\ last'.kind = "ack_os_reg"
                        /\ last'.ret[7] = OsReg(0, TM_NSR)
                        /\ ~tctx'[0].output
                   ELSE /\ last'.kind = "invalid"
                        /\ last'.ret = MinusOne
                        /\ tctx' = tctx]_vars

\* ACK_OS_REG through the USER page has returned -1 and left the exception of
\* the OS ring raised
C26_Witness ==
    /\ last.op = "tm_read" /\ last.kind = "invalid" /\ last.ret = MinusOne
    /\ OsRaised(0)
    /\ OsReg(0, TM_PIPR) < OsReg(0, TM_CPPR)


(***************************************************************************)
(* Properties of the raw accesses to the TIMA (checked under SpecTima)     *)
(***************************************************************************)
\* What the view of the page lets be done with a register
Readable(page, r) == BitAnd(xive_tm_views[page + 1][r + 1], 2) # 0
Writable(page, r) == BitAnd(xive_tm_views[page + 1][r + 1], 1) # 0

\* The raw access the step made, as last' records it
RawLoadStep ==
    /\ last'.op = "tm_read" /\ last'.kind = "raw"
    /\ TmReadAt(0, last'.at[1], last'.at[2], last'.at[3])
RawStoreStep ==
    /\ last'.op = "tm_write" /\ last'.kind = "raw"
    /\ TmWriteAt(0, last'.at[1], last'.at[2], last'.at[3], last'.value)

\* The load returns, byte by byte, the readable registers and zero for the others
FilteredLoad(page, off, size) ==
    /\ \A i \in 1 .. 8 :
          last'.ret[i] = IF i <= 8 - size THEN 0
                         ELSE LET r == off + i - (8 - size) - 1
                              IN  IF Readable(page, r) THEN tctx[0].regs[r] ELSE 0
    /\ tctx' = tctx

\* The store writes exactly the writable bytes
FilteredStore(page, off, size, value) ==
    /\ \A r \in 0 .. 63 :
          tctx'[0].regs[r] = IF r >= off /\ r < off + size /\ Writable(page, r)
                             THEN value[r - off + 1] ELSE tctx[0].regs[r]

\* The accesses the raw region serves: 4 or 8 bytes, outside the User ring,
\* with a byte the view lets through
Served(page, off, size, write) ==
    /\ size >= 4
    /\ (off \div 16) * 16 # TM_QW0_USER
    /\ \E r \in off .. off + size - 1 :
          IF write THEN Writable(page, r) ELSE Readable(page, r)

\* C25 as stated: every raw access of 1, 2, 4 or 8 bytes is filtered byte by byte
C25_Original ==
    /\ [][RawLoadStep => FilteredLoad(last'.at[1], last'.at[2], last'.at[3])]_vars
    /\ [][RawStoreStep =>
             FilteredStore(last'.at[1], last'.at[2], last'.at[3], last'.value)]_vars

\* C25: a raw TIMA load of 4 or 8 bytes outside the User ring, with a readable
\* byte, returns byte by byte the readable registers and zero for the others,
\* and such a store with a writable byte stores exactly the writable bytes;
\* every other raw load returns all ones and every other raw store does nothing
C25_RawAccess ==
    /\ [][RawLoadStep =>
             IF Served(last'.at[1], last'.at[2], last'.at[3], FALSE)
             THEN FilteredLoad(last'.at[1], last'.at[2], last'.at[3])
             ELSE last'.ret = MinusOne /\ tctx' = tctx]_vars
    /\ [][RawStoreStep =>
             IF Served(last'.at[1], last'.at[2], last'.at[3], TRUE)
             THEN FilteredStore(last'.at[1], last'.at[2], last'.at[3], last'.value)
             ELSE tctx' = tctx]_vars

\* An 8-byte load of the OS ring through the OS page, after a store changed the
\* ring, returned everything but the byte the view hides
C25_Witness ==
    /\ last.op = "tm_read" /\ last.kind = "raw"
    /\ last.at = << XIVE_TM_OS_PAGE, TM_QW1_OS, 8 >>
    /\ tctx[0].regs[TM_QW1_OS + TM_NSR] = 65 + TM_QW1_OS
    /\ last.ret[1] = 65 + TM_QW1_OS
    /\ tctx[0].regs[TM_QW1_OS + 6] # 0
    /\ last.ret[7] = 0


(***************************************************************************)
(* Properties of the ESB pages of the event queues (checked under          *)
(* SpecEqEsb)                                                              *)
(***************************************************************************)
\* The ESB operation an offset of the page decodes to, applied to a PQ field
EqEsbOp(off, pq) ==
    IF off < XIVE_ESB_GET
    THEN [pq |-> xive_esb_eoi(pq).pq, ret |-> IF xive_esb_eoi(pq).ret THEN 1 ELSE 0]
    ELSE IF off < XIVE_ESB_SET_PQ_00
    THEN [pq |-> pq, ret |-> pq]
    ELSE [pq |-> (off \div 256) % 4, ret |-> pq]

\* The load of a valid EQ the step made, as last' records it
EqEsbLoadStep ==
    /\ last'.op = "eq_esb_read"
    /\ << 0, last'.at[1] >> \in DOMAIN eqt
    /\ eqt[<< 0, last'.at[1] >>].valid
    /\ EqEsbRead(last'.at[1], last'.at[2], last'.at[3])

EqEsbLoadEffect(k, half, off) ==
    LET pq == IF half = 0 THEN eqt[k].esn ELSE eqt[k].ese
        r  == EqEsbOp(off, pq)
    IN  /\ last'.ret = U64(r.ret)
        /\ last'.set_eq = (r.pq # pq)
        /\ eqt' = [eqt EXCEPT ![k] = IF half = 0 THEN [@ EXCEPT !.esn = r.pq]
                                                 ELSE [@ EXCEPT !.ese = r.pq]]
        /\ ~last'.notify
        /\ UNCHANGED << xsrc, ivt, vpt, mem, tctx, pushes >>

\* C27: a load in the EQ ESB region applies the operation its offset decodes to
\* (EOI, get, set PQ) to the ESn field (even page) or the ESe field (odd page)
\* of the addressed valid EQ, writes the EQ back only if the field changed and
\* changes nothing else, notifying no presenter; a store changes no state
C27_EqEsb ==
    /\ [][EqEsbLoadStep =>
             EqEsbLoadEffect(<< 0, last'.at[1] >>, last'.at[2], last'.at[3])]_vars
    /\ [][last'.op = "eq_esb_write" =>
             UNCHANGED << xsrc, ivt, eqt, vpt, mem, tctx, pushes >>]_vars

\* An EOI load on the even page found ESn at QUEUED after the source triggered
\* twice: it returned 1, left ESn at PENDING, and the thread context as it was
C27_Witness ==
    /\ last.op = "eq_esb_read" /\ last.kind = "eoi"
    /\ last.at[1] = 0 /\ last.at[2] = 0
    /\ last.ret = U64(1)
    /\ last.set_eq
    /\ eqt[<< 0, 0 >>].esn = XIVE_ESB_PENDING
    /\ ~eqt[<< 0, 0 >>].ucond_notify
    /\ \E c \in Cpus : tctx[c].regs[TM_QW1_OS + TM_IPB] # 0


(***************************************************************************)
(* Properties of the reset of the source (checked under Spec)              *)
(***************************************************************************)
\* A trigger of source n: an input line event or a store to its trigger page
AnyTrigger(n) ==
    \/ /\ last'.op = "set_irq"
       /\ \E val \in {0, 1} : SetIrq(n, val)
    \/ /\ last'.op = "esb_write" /\ last'.kind = "trigger"
       /\ \E half \in EsbHalves, off \in EsbOffsets : EsbWrite(n, half, off)

\* C28: the reset of the source sets the ESB byte of every IRQ to 0x01 (PQ OFF,
\* ASSERTED cleared) whatever it was and leaves the LSI bitmap unchanged; a
\* trigger or set_irq on a source whose PQ is OFF forwards nothing and leaves
\* the PQ at OFF, and the PQ leaves OFF only by a set_pq access
C28_Reset ==
    /\ [][last'.op = "source_reset" =>
             /\ \A n \in Irqs : xsrc'.status[n] = 1
             /\ xsrc'.lsi_map = xsrc.lsi_map
             /\ RouterUnchanged]_vars
    /\ [][\A n \in Irqs :
             PQ(n) = XIVE_ESB_OFF =>
                /\ PQ(n)' # XIVE_ESB_OFF => last'.kind = "set_pq"
                /\ AnyTrigger(n) => ~last'.notify /\ RouterUnchanged]_vars

\* After events were forwarded the source was reset with an LSI asserted; the
\* line was then raised again and nothing was forwarded
C28_Witness ==
    /\ last.op = "set_irq" /\ last.kind = "raise" /\ ~last.notify
    /\ pushes > 0
    /\ \A n \in Irqs : PQ(n) = XIVE_ESB_OFF
    /\ \E n \in LsiMap : xsrc.status[n] = XIVE_STATUS_ASSERTED + XIVE_ESB_OFF


(***************************************************************************)
(* Properties of a single event from end to end (checked under SpecShot)   *)
(***************************************************************************)
ShotEq(n) == eqt[<< ivt[n].eq_blk, ivt[n].eq_idx >>]
OsMatch(c, eq) ==
    xive_tctx_ring_match(tctx[c], TM_QW1_OS, eq.nvt_blk, eq.nvt_idx, FALSE, 0)
HvMatch(c, eq) ==
    \E ring \in {TM_QW3_HV_PHYS, TM_QW2_HV_POOL} :
       xive_tctx_ring_match(tctx[c], ring, eq.nvt_blk, eq.nvt_idx, FALSE, 0)

\* The configuration of the scenario: source n is an MSI in RESET, its IVE is
\* valid and not masked, its EQ is valid, enqueues, notifies unconditionally,
\* is at index 0 of generation 0 with format 0 and priority 4, the VP is valid
\* and CPU c is the one thread context that matches, on its OS ring, with
\* CPPR = 0xFF and IPB = 0
ShotReady(n, c) ==
    /\ n \in Msis /\ PQ(n) = XIVE_ESB_RESET
    /\ ivt[n].valid /\ ~ivt[n].masked
    /\ << ivt[n].eq_blk, ivt[n].eq_idx >> \in DOMAIN eqt
    /\ ShotEq(n).valid /\ ShotEq(n).enqueue /\ ShotEq(n).ucond_notify
    /\ ShotEq(n).page_off = 0 /\ ShotEq(n).generation = 0
    /\ ShotEq(n).format = 0 /\ EQ_W7_F0_PRIORITY(ShotEq(n).w7) = 4
    /\ ~EQ_W7_F0_IGNORE(ShotEq(n).w7)
    /\ << ShotEq(n).nvt_blk, ShotEq(n).nvt_idx >> \in DOMAIN vpt
    /\ vpt[<< ShotEq(n).nvt_blk, ShotEq(n).nvt_idx >>].valid
    /\ OsMatch(c, ShotEq(n))
    /\ \A d \in Cpus : ~HvMatch(d, ShotEq(n)) /\ (d # c => ~OsMatch(d, ShotEq(n)))
    /\ OsReg(c, TM_CPPR) = 255 /\ OsReg(c, TM_IPB) = 0

\* What the trigger leaves behind, but for the word in the queue
ShotDelivered(n, c) ==
    /\ eqt'[<< ivt[n].eq_blk, ivt[n].eq_idx >>] = [ShotEq(n) EXCEPT !.page_off = 1]
    /\ OsReg(c, TM_IPB)' = 8
    /\ OsReg(c, TM_PIPR)' = 4
    /\ BitAnd(OsReg(c, TM_NSR)', TM_QW1_NSR_EO) # 0
    /\ tctx'[c].output
    /\ last'.notify

\* The word at the base of the queue of source n after the step
ShotWord(n) == [i \in 1 .. 4 |-> mem'[ShotEq(n).qaddr + i - 1]]

\* C29 as stated: the word written is 0x80000000 | D
C29_Original ==
    [][\A n \in Irqs, c \in Cpus :
          TriggerStep(n) /\ ShotReady(n, c) =>
             /\ ShotDelivered(n, c)
             /\ ShotWord(n) = << 128 + (ivt[n].eq_data[1] % 128), ivt[n].eq_data[2],
                                 ivt[n].eq_data[3], ivt[n].eq_data[4] >>]_vars

\* C29: in the configuration of the scenario a single trigger writes at the
\* base of the queue the big-endian word (generation << 31) | (D & 0x7fffffff),
\* that is D with bit 31 clear since the generation is 0, leaves the EQ at
\* index 1 of generation 0, and leaves the thread context with IPB = 0x08,
\* PIPR = 4, NSR.EO set and its output line asserted
C29_SingleShot ==
    [][\A n \in Irqs, c \in Cpus :
          TriggerStep(n) /\ ShotReady(n, c) =>
             /\ ShotDelivered(n, c)
             /\ ShotWord(n) = << ivt[n].eq_data[1] % 128, ivt[n].eq_data[2],
                                 ivt[n].eq_data[3], ivt[n].eq_data[4] >>]_vars

\* The event of the scenario was delivered: the first word of the queue is in
\* memory, the EQ is at index 1 and CPU 0 has the exception pending at
\* priority 4 under CPPR = 0xFF
C29_Witness ==
    /\ last.op \in {"set_irq", "esb_write"} /\ last.notify
    /\ pushes = 1
    /\ eqt[<< 0, 0 >>].page_off = 1 /\ eqt[<< 0, 0 >>].generation = 0
    /\ DOMAIN mem = 0 .. 3
    /\ OsReg(0, TM_CPPR) = 255 /\ OsReg(0, TM_IPB) = 8 /\ OsReg(0, TM_PIPR) = 4
    /\ tctx[0].output


(***************************************************************************)
(* Properties of the assertions (checked under SpecPres)                   *)
(***************************************************************************)
\* C30 as stated: no sequence of operations of the guest has a thread context
\* asked to raise or accept an exception on a ring exception_mask() does not
\* support, which is where the program asserts
C30_Original == \A c \in Cpus : ~tctx[c].fatal


(***************************************************************************)
(* Properties of the masked EQ (checked under SpecMask)                    *)
(***************************************************************************)
\* The source notified the router, whose IVE leads to the valid EQ 0/0
MaskStep == last'.notify /\ last'.op \in {"set_irq", "esb_write"} /\ PresEq.valid
EqIsMasked == PresEq.format = 0 /\ PresPriority = 255
PresenterUntouched == tctx' = tctx /\ vpt' = vpt
EsnTrigger == xive_esb_trigger(PresEq.esn)

\* C31 as stated: with UCOND_NOTIFY clear the trigger on ESn is performed and
\* persisted whether the EQ is masked or not
C31_Original ==
    [][MaskStep /\ ~PresEq.ucond_notify =>
          /\ eqt'[Eq00].esn = EsnTrigger.pq
          /\ ~EsnTrigger.ret => PresenterUntouched]_vars

\* C31: for a valid EQ with UCOND_NOTIFY clear the masked check comes first: a
\* masked EQ (format 0, priority 0xFF) keeps its ESn and the presenter is not
\* reached; an EQ that is not masked has the ESB trigger performed on its ESn
\* and persisted, and the presenter is reached only when that trigger
\* returned forward
C31_EsnAfterMask ==
    [][MaskStep /\ ~PresEq.ucond_notify =>
          IF EqIsMasked
          THEN eqt'[Eq00].esn = PresEq.esn /\ PresenterUntouched
          ELSE /\ eqt'[Eq00].esn = EsnTrigger.pq
               /\ ~EsnTrigger.ret => PresenterUntouched
               /\ EsnTrigger.ret => OsReg(0, TM_IPB)' = 8]_vars

\* A masked EQ with UCOND_NOTIFY clear was notified twice, both events are in
\* its queue and its ESn is still RESET
C31_Witness ==
    /\ last.notify /\ ~PresEq.ucond_notify /\ PresEq.enqueue /\ pushes = 2
    /\ EqIsMasked /\ PresEq.esn = XIVE_ESB_RESET

\* C32: for a valid format-0 EQ whose priority is 0xFF the presenter is never
\* invoked, no thread context and no VP changes, and the event data is still
\* enqueued when ENQUEUE is set
C32_MaskedEq ==
    [][MaskStep /\ EqIsMasked =>
          /\ PresenterUntouched
          /\ PresEq.enqueue =>
                /\ pushes' = pushes + 1
                /\ \A i \in 1 .. 4 :
                      mem'[QSlot(Eq00) + i - 1] = eq_qdata(PresEq.generation, EqData)[i]
                /\ eqt'[Eq00].page_off = PresEq.page_off + 1
          /\ ~PresEq.enqueue => UNCHANGED << mem, pushes, eqt >>]_vars

\* A masked EQ that enqueues took an event: the word is in its queue and no
\* thread context has anything pending
C32_Witness ==
    /\ last.notify /\ EqIsMasked /\ PresEq.enqueue
    /\ pushes = 1 /\ PresEq.page_off = 1 /\ DOMAIN mem = 0 .. 3
    /\ \A c \in Cpus : OsReg(c, TM_IPB) = 0 /\ ~tctx[c].output


(***************************************************************************)
(* Properties of the ESB state machine (checked under Spec, on the status  *)
(* bytes of the sources)                                                   *)
(***************************************************************************)
\* The byte after trigger, EOI, EOI, trigger, and after the first two of them
TriggerEoi(pq) == xive_esb_eoi(xive_esb_trigger(pq).pq).pq
TriggerEoiEoiTrigger(pq) == xive_esb_trigger(xive_esb_eoi(TriggerEoi(pq)).pq).pq
ArmedSources == { n \in Irqs : PQ(n) \in {XIVE_ESB_RESET, XIVE_ESB_PENDING} }

\* C33 as stated: trigger, EOI, EOI, trigger returns RESET and PENDING to
\* themselves
C33_Original ==
    \A n \in ArmedSources : TriggerEoiEoiTrigger(xsrc.status[n]) % 4 = PQ(n)

\* C33: from RESET and from PENDING, trigger then EOI returns the ESB to the
\* state it had, and trigger, EOI, EOI, trigger leaves it PENDING: the second
\* EOI resets the ESB and the last trigger is forwarded; the bits of the byte
\* above the PQ bits are kept
C33_RoundTrip ==
    \A n \in ArmedSources :
       /\ TriggerEoi(xsrc.status[n]) = xsrc.status[n]
       /\ TriggerEoiEoiTrigger(xsrc.status[n]) % 4 = XIVE_ESB_PENDING
       /\ TriggerEoiEoiTrigger(xsrc.status[n]) \div 4 = xsrc.status[n] \div 4
       /\ xive_esb_trigger(xive_esb_eoi(TriggerEoi(xsrc.status[n])).pq).ret

\* A source is in RESET after events went through it, the other is PENDING
C33_Witness ==
    /\ pushes > 0
    /\ \E n \in ArmedSources : PQ(n) = XIVE_ESB_RESET
    /\ \E n \in ArmedSources : PQ(n) = XIVE_ESB_PENDING /\ Asserted(n)


(***************************************************************************)
(* Properties of the OS ring without raw stores (checked under SpecOs)     *)
(***************************************************************************)
\* C34: from a reset thread context with its line low, under notifications of
\* the presenter, ACK_OS_REG, SET_OS_CPPR and SET_OS_PENDING, the output line is
\* asserted exactly when NSR.EO is set on the OS ring
C34_LineIsEO ==
    /\ [](\A c \in Cpus : tctx[c].output <=> OsEO(c))
    /\ [][last'.op = "tm_write" => last'.kind \in {"set_os_cppr", "set_os_pending"}]_vars

\* The line is low again after an exception was raised and acknowledged while
\* another priority is pending
C34_Witness ==
    /\ last.op = "tm_read" /\ last.kind = "ack_os_reg"
    /\ last.ret[7] = TM_QW1_NSR_EO
    /\ ~tctx[0].output /\ ~OsEO(0)
    /\ OsReg(0, TM_IPB) # 0

\* The ACK_OS_REG of CPU 0 that finds NSR.EO set
AckFindsEO ==
    /\ last'.op = "tm_read" /\ last'.kind = "ack_os_reg"
    /\ OsEO(0)
    /\ \E page \in 0 .. 2 : TmRead(0, page, TM_SPC_ACK_OS_REG, 2)

\* C36: immediately after an ACK_OS_REG that found NSR.EO set, PIPR > CPPR on
\* the OS ring: CPPR is the accepted priority, every priority still pending in
\* the IPB is less favored, and a re-check would not raise the line
C36_AckLeavesNoException ==
    [][AckFindsEO =>
          /\ OsReg(0, TM_CPPR)' = OsReg(0, TM_PIPR)
          /\ OsReg(0, TM_PIPR)' > OsReg(0, TM_CPPR)'
          /\ \A p \in 0 .. 7 :
                BitAnd(OsReg(0, TM_IPB)', priority_to_ipb(p)) # 0 =>
                   p > OsReg(0, TM_CPPR)'
          /\ xive_tctx_notify(tctx'[0], TM_QW1_OS) = tctx'[0]
          /\ ~tctx'[0].output]_vars

\* An ACK_OS_REG accepted priority 1 and left priorities 4 and 6 pending
C36_Witness ==
    /\ last.op = "tm_read" /\ last.kind = "ack_os_reg"
    /\ last.ret[7] = TM_QW1_NSR_EO
    /\ OsReg(0, TM_CPPR) = 1
    /\ OsReg(0, TM_IPB) = 8 + 2
    /\ OsReg(0, TM_PIPR) = 4


(***************************************************************************)
(* Properties of the USER page of the TIMA (checked under SpecUser)        *)
(***************************************************************************)
UserLoad(c, a) == xive_tm_read(tctx[c], TmOffset(XIVE_TM_USER_PAGE, a.off), a.size)
UserStore(c, a) ==
    xive_tm_write(tctx[c], TmOffset(XIVE_TM_USER_PAGE, a.off), UserValue(a), a.size)

\* C35: no load and no store through the USER page, at any offset of the raw or
\* of the special region and of any size, changes a register or the output
\* line of a thread context: no special operation is found for the page and
\* every raw store is refused
C35_UserPage ==
    \A c \in Cpus, a \in UserAligned :
       /\ UserLoad(c, a).tctx = tctx[c]
       /\ UserLoad(c, a).kind # "ack_os_reg"
       /\ UserStore(c, a).tctx = tctx[c]
       /\ UserStore(c, a).kind \in {"raw", "invalid"}

\* A store through the USER page found CPU 0 with an exception raised and two
\* priorities pending, and left them
C35_Witness ==
    /\ last.op = "tm_write" /\ last.kind \in {"raw", "invalid"}
    /\ OsRaised(0)
    /\ OsReg(0, TM_IPB) = 8 + 2
    /\ OsReg(0, TM_CPPR) = 255


(***************************************************************************)
(* Properties of the words of the VP (checked under SpecPres)              *)
(***************************************************************************)
\* C37 as stated: when no thread context matches, the backlog update changes
\* the word w4 of the VP only: the bytes of w5, the valid bit and the other
\* VPs are stored as they were loaded
C37_Original ==
    [][(/\ PresenterStep
        /\ \A c \in Cpus : ~Matching(c)) =>
          /\ \A b \in 4 .. 7 : vpt'[PresVp].w45[b] = vpt[PresVp].w45[b]
          /\ vpt'[PresVp].valid = vpt[PresVp].valid
          /\ \A k \in DOMAIN vpt \ {PresVp} : vpt'[k] = vpt[k]]_vars


(***************************************************************************)
(* Properties of the values of CPPR and IPB (checked under SpecTctx)       *)
(***************************************************************************)
CpprValues == 0 .. 7 \cup {255}
CpprRecorded(c, a) ==
    /\ OsReg(c, TM_CPPR)' \in CpprValues
    /\ a.value[1] > 7 => OsReg(c, TM_CPPR)' = 255
    /\ a.value[1] <= 7 => OsReg(c, TM_CPPR)' = a.value[1]

\* C38 as stated: after SET_OS_CPPR the CPPR is in 0..7 or 0xFF, and a store
\* of more than 7 with an IPB bit pending always raises the exception
C38_Original ==
    [][\A c \in Cpus, a \in TmStores :
          SetOsCppr(c, a) =>
             /\ CpprRecorded(c, a)
             /\ (a.value[1] > 7 /\ OsReg(c, TM_IPB) # 0) => OsRaised(c)']_vars

\* C38: after SET_OS_CPPR the CPPR of the OS ring is in 0..7 or 0xFF, a value
\* of more than 7 being recorded as 0xFF; such a store sets NSR.EO and asserts
\* the line when PIPR is less than 0xFF, which with an IPB bit pending is the
\* case as long as PIPR is the priority of the IPB: a raw store to the IPB
\* leaves PIPR as it was, and then the store may raise nothing
C38_CpprRange ==
    [][\A c \in Cpus, a \in TmStores :
          SetOsCppr(c, a) =>
             /\ CpprRecorded(c, a)
             /\ (a.value[1] > 7 /\ OsReg(c, TM_PIPR) < 255) => OsRaised(c)'
             /\ (a.value[1] > 7 /\ OsReg(c, TM_IPB) # 0 /\ OsPiprOfIpb(c)) =>
                    OsRaised(c)'
             /\ (a.value[1] > 7 /\ OsReg(c, TM_PIPR) = 255) =>
                    /\ OsReg(c, TM_NSR)' = OsReg(c, TM_NSR)
                    /\ tctx'[c].output = tctx[c].output]_vars

\* The store of 9 was recorded as 0xFF and raised the exception of priority 4
C38_Witness ==
    /\ last.op = "tm_write" /\ last.kind = "set_os_cppr"
    /\ OsReg(0, TM_CPPR) = 255
    /\ OsReg(0, TM_IPB) = 8 /\ OsReg(0, TM_PIPR) = 4
    /\ OsRaised(0)


(***************************************************************************)
(* Properties of the priorities above 7 (checked under SpecPrio)           *)
(***************************************************************************)
\* SET_OS_PENDING of CPU 0 with a value above 7, and a notification of the
\* presenter with a priority above 7 that the OS ring of CPU 0 matches
HighPending ==
    /\ last'.op = "tm_write" /\ last'.kind = "set_os_pending"
    /\ \E page \in {XIVE_TM_HW_PAGE, XIVE_TM_OS_PAGE}, a \in PrioStores :
          /\ a.off = TM_SPC_SET_OS_PENDING /\ a.value[1] > 7
          /\ TmWrite(0, page, a.off, a.size, a.value)
HighNotification ==
    /\ PresenterNotifies(0)
    /\ PresPriority > 7
    /\ Matching(0)

\* C39 as stated: a priority above 7 leaves IPB and PIPR of the ring unchanged
C39_Original ==
    [][(HighPending \/ HighNotification) =>
          /\ OsReg(0, TM_IPB)' = OsReg(0, TM_IPB)
          /\ OsReg(0, TM_PIPR)' = OsReg(0, TM_PIPR)]_vars

\* C39: a priority above 7 never sets a pending bit: SET_OS_PENDING with a
\* value above 7 and a notification of the presenter with a priority above 7
\* leave the IPB of the ring unchanged, and make PIPR the priority of that
\* IPB: PIPR is unchanged if it was that already, and is corrected if a raw
\* store to the IPB had left it behind; the IPB is a byte, each bit of which
\* is one of the priorities 0..7
C39_HighPriority ==
    /\ [][(HighPending \/ HighNotification) =>
             /\ OsReg(0, TM_IPB)' = OsReg(0, TM_IPB)
             /\ OsReg(0, TM_PIPR)' = ipb_to_pipr(OsReg(0, TM_IPB))
             /\ OsPiprOfIpb(0) => OsReg(0, TM_PIPR)' = OsReg(0, TM_PIPR)]_vars
    /\ [](\A c \in Cpus : OsReg(c, TM_IPB) \in 0 .. 255)

\* A notification of priority 9 reached the OS ring of CPU 0, which has
\* priority 6 pending and nothing else
C39_Witness ==
    /\ last.op = "set_irq" /\ last.notify
    /\ PresPriority = 9
    /\ OsReg(0, TM_IPB) = 2 /\ OsReg(0, TM_PIPR) = 6


(***************************************************************************)
(* Properties of the Q bit of the LSIs (checked under Spec)                *)
(***************************************************************************)
\* The step takes the PQ of source n to QUEUED
BecomesQueued(n) == PQ(n) # XIVE_ESB_QUEUED /\ PQ(n)' = XIVE_ESB_QUEUED

\* C40: the PQ of an LSI is not QUEUED after reset, and becomes QUEUED only by
\* a store to its trigger page or by a set_pq of 11: set_irq (assert and
\* deassert), EOI, reset and set_pq of 00, 01 and 10 never take it there
C40_LsiNeverQueued ==
    /\ \A n \in LsiMap : PQ(n) # XIVE_ESB_QUEUED
    /\ [][\A n \in LsiMap :
             BecomesQueued(n) =>
                \/ /\ last'.op = "esb_write" /\ last'.kind = "trigger"
                   /\ \E half \in EsbHalves : EsbWrite(n, half, 0)
                \/ /\ last'.op \in {"esb_read", "esb_write"} /\ last'.kind = "set_pq"
                   /\ \/ EsbRead(n, MgmtHalf, XIVE_ESB_SET_PQ_11)
                      \/ EsbWrite(n, MgmtHalf, XIVE_ESB_SET_PQ_11)]_vars

\* A store to the trigger page of an asserted LSI that was PENDING has set
\* its Q bit
C40_Witness ==
    /\ last.op = "esb_write" /\ last.kind = "trigger" /\ ~last.notify
    /\ \E n \in LsiMap : PQ(n) = XIVE_ESB_QUEUED /\ Asserted(n)
    /\ \A n \in Msis : PQ(n) = XIVE_ESB_OFF

============================================================================
